---- MODULE Spec2Model ----
(***************************************************************************)
(* QuinLang: the semantic analyzer (compiler/sema.py), the VM code         *)
(* generator (compiler/codegen_vm.py) and the stack VM (runtime/vm.py).    *)
(*                                                                         *)
(* A program is an AST (compiler/ast.py).  It is analyzed, lowered to      *)
(* bytecode and executed one instruction per step by QuinVM._run, while    *)
(* the host may call request_stop at any moment.  (Spec)                   *)
(*                                                                         *)
(* The Lexer (compiler/lexer.py) scans a source text one token per step    *)
(* (LexSpec); the Parser (compiler/parser.py) takes a token list one       *)
(* function, statement or vm_asm token per step (ParseSpec); the IDE's     *)
(* Runner (ide/runner.py) compiles and executes source texts on worker     *)
(* threads that interleave with the host's run() and stop() (RunnerSpec,   *)
(* FairRunnerSpec).  An object a specification does not use is NoObject.   *)
(*                                                                         *)
(* Program counters, local indices, function indices and string ids are    *)
(* 0-based as in the source; TLA+ sequences are 1-based, so code[pc] of    *)
(* the source is code[pc + 1] here.                                        *)
(***************************************************************************)
EXTENDS Integers, Sequences, FiniteSets, TLC

VARIABLES
    prog,            \* which source program was compiled (input)
    argA, argB,      \* the two integer literals of a parametric program (input)
    code,            \* QuinVM.code
    functions,       \* QuinVM.functions (FunctionInfo records)
    strings,         \* QuinVM.strings: sid -> text, as a sequence (sid + 1)
    stop_requested,  \* QuinVM._stop_requested
    stack,           \* QuinVM.stack
    call_stack,      \* QuinVM.call_stack: (return_pc, locals)
    pc,              \* QuinVM.pc
    locals,          \* QuinVM.locals
    out,             \* the texts handed to the output callback, in order
    status,          \* "ready" | "running" | "finished" | "stopped" | "error"
    exit_code,       \* <<v>> once run_main has returned v, <<>> before and otherwise
    error,           \* the message of the exception that ended the run
    call_hist,       \* history: per active CALL, the callee and the operands
                     \* that lay below its arguments
    lexer,           \* a Lexer: source, tokens, start, current, line, col
    parser,          \* a Parser: tokens, current, and where parse() stands
    runner           \* the IDE's Runner: _state, _vm, the worker thread

vars == <<prog, argA, argB, code, functions, strings, stop_requested, stack,
          call_stack, pc, locals, out, status, exit_code, error, call_hist,
          lexer, parser, runner>>

\* The objects of the front end and of the IDE
hostvars == <<lexer, parser, runner>>

\* No Lexer, Parser or Runner has been built.
NoObject == [state |-> "none"]

(***************************************************************************)
(* Bounds and program constants                                            *)
(***************************************************************************)
\* Integer literals 0..MaxSmall are tried as operands, next to the edge values.
MaxSmall == 2

\* 0xFFFF + 1: the VM masks arithmetic results with & 0xFFFF.
Mod16 == 65536

\* Integer literals a source program may contain (the lexer accepts any
\* sequence of digits, so values above 0xFFFF are included).
Operands == (0..MaxSmall) \cup {7, 32767, 32768, 65529, 65535, 65536, 70000}

(***************************************************************************)
(* compiler/ast.py: the AST.  A node is a record with a kind; an absent    *)
(* optional child (None) is the node NoneNode.                             *)
(***************************************************************************)
NoneNode == [kind |-> "None"]

\* Type names as the parser builds them: a base name, or int[n].
TypeName(base) == [base |-> base, arr |-> FALSE, n |-> 0]
ArrayTypeName(n) == [base |-> "int", arr |-> TRUE, n |-> n]
NoTypeName == [base |-> "None", arr |-> FALSE, n |-> 0]

IntLit(v) == [kind |-> "Literal", ty |-> "int", value |-> v]
BoolLit(v) == [kind |-> "Literal", ty |-> "bool", value |-> v]
StrLit(v) == [kind |-> "Literal", ty |-> "str", value |-> v]
Identifier(name) == [kind |-> "Identifier", name |-> name]
Unary(op, right) == [kind |-> "Unary", op |-> op, right |-> right]
Binary(left, op, right) == [kind |-> "Binary", left |-> left, op |-> op, right |-> right]
Call(callee, args) == [kind |-> "Call", callee |-> callee, args |-> args]
Index(array, index) == [kind |-> "Index", array |-> array, index |-> index]
AddressOf(target) == [kind |-> "AddressOf", target |-> target]

ExprStmt(expr) == [kind |-> "ExprStmt", expr |-> expr]
VarDecl(name, type_name, init) ==
    [kind |-> "VarDecl", name |-> name, type_name |-> type_name, init |-> init]
Assign(target, value) == [kind |-> "Assign", target |-> target, value |-> value]
PrintStmt(value) == [kind |-> "Print", value |-> value]
PrintLnStmt(value) == [kind |-> "PrintLn", value |-> value]
Return(value) == [kind |-> "Return", value |-> value]
InlineAsm(text) == [kind |-> "InlineAsm", code |-> text]
VmAsm(lines) == [kind |-> "VmAsm", code |-> lines]
If(cond, then_block, else_block) ==
    [kind |-> "If", cond |-> cond, then_block |-> then_block, else_block |-> else_block]
While(cond, body) == [kind |-> "While", cond |-> cond, body |-> body]
Param(name, type_name) == [name |-> name, type_name |-> type_name]
Function(name, params, return_type, body) ==
    [name |-> name, params |-> params, return_type |-> return_type, body |-> body]

(***************************************************************************)
(* compiler/types.py                                                       *)
(***************************************************************************)
Type(name, n, size) == [name |-> name, n |-> n, size |-> size]
IntType == Type("int", 0, 2)
StrType == Type("str", 0, 2)
VoidType == Type("void", 0, 0)
BoolType == Type("bool", 0, 1)
PtrType == Type("ptr", 0, 2)
\* Type("int[N]", 2 * N): the name carries N.
ArrayType(n) == Type("int[N]", n, 2 * n)

type_from_name(tn) ==
    IF tn.arr
    THEN (IF tn.n <= 0 THEN IntType ELSE ArrayType(tn.n))
    ELSE CASE tn.base = "int" -> IntType
           [] tn.base = "str" -> StrType
           [] tn.base = "void" -> VoidType
           [] tn.base = "bool" -> BoolType
           [] tn.base = "ptr" -> PtrType
           [] OTHER -> IntType

is_array_type(t) == t.name = "int[N]"

(***************************************************************************)
(* compiler/builtins.py                                                    *)
(***************************************************************************)
FunctionSig(name, params, ret) == [name |-> name, params |-> params, ret |-> ret]

get_builtins ==
    << FunctionSig("load16", <<PtrType>>, IntType),
       FunctionSig("store16", <<PtrType, IntType>>, VoidType),
       FunctionSig("memcpy", <<PtrType, PtrType, IntType>>, VoidType),
       FunctionSig("memset", <<PtrType, IntType, IntType>>, VoidType),
       FunctionSig("array_push", <<IntType, IntType, IntType>>, IntType),
       FunctionSig("array_pop", <<IntType, IntType>>, IntType),
       FunctionSig("ct_eq", <<IntType, IntType>>, BoolType),
       FunctionSig("ct_select", <<IntType, IntType, IntType>>, IntType) >>

(***************************************************************************)
(* compiler/sema.py.  An expression node is identified by its path from    *)
(* the program root (the source keys the side table by id(node)): the      *)
(* statement i of function f is <<f, i>>, and a child adds its position.   *)
(* A SemanticError is the result with ok = FALSE.                          *)
(***************************************************************************)
EmptyDict == [x \in {} |-> VoidType]

\* Scope: the chain of vars dicts, the innermost last.
RECURSIVE resolve(_, _)
resolve(scope, name) ==
    IF Len(scope) = 0 THEN [found |-> FALSE, type |-> VoidType]
    ELSE IF name \in DOMAIN scope[Len(scope)]
         THEN [found |-> TRUE, type |-> scope[Len(scope)][name]]
         ELSE resolve(SubSeq(scope, 1, Len(scope) - 1), name)

\* Scope.define: the new chain, or ok = FALSE on a redeclaration.
define(scope, name, t) ==
    IF name \in DOMAIN scope[Len(scope)]
    THEN [ok |-> FALSE, scope |-> scope]
    ELSE [ok |-> TRUE,
          scope |-> [scope EXCEPT ![Len(scope)] = (name :> t) @@ scope[Len(scope)]]]

\* Context.set_type
set_type(nt, p, t) == (p :> t) @@ nt

\* ctx.functions lookup: name in self.ctx.functions / self.ctx.functions[name]
HasSig(sigs, name) == \E i \in 1..Len(sigs) : sigs[i].name = name
SigOf(sigs, name) == sigs[CHOOSE i \in 1..Len(sigs) : sigs[i].name = name]

ExprOk(t, nt) == [ok |-> TRUE, t |-> t, nt |-> nt]
ExprErr(nt) == [ok |-> FALSE, t |-> VoidType, nt |-> nt]

\* v is evaluated once and handed to K: the statements after an assignment
\* v = ... in the source, which read the assigned variable.
Bind(v, K(_)) == K(v)

RECURSIVE analyze_expr(_, _, _, _, _)
RECURSIVE analyze_args(_, _, _, _, _, _, _)

\* for a, pt in zip(e.args, sig.params): analyze a, require its type = pt
analyze_args(args, params, i, p, scope, sigs, nt) ==
    IF i > Len(args) \/ i > Len(params) THEN ExprOk(VoidType, nt)
    ELSE Bind(analyze_expr(args[i], p \o <<i>>, scope, sigs, nt), LAMBDA r :
         IF ~r.ok THEN r
         ELSE IF r.t # params[i] THEN ExprErr(r.nt)
         ELSE analyze_args(args, params, i + 1, p, scope, sigs, r.nt))

\* The result for node p once its operands l and r are analyzed
binary_type(op, p, l, r) ==
    IF op \in {"+", "-", "*", "/"}
    THEN (IF l.t = IntType /\ r.t = IntType
          THEN ExprOk(IntType, set_type(r.nt, p, IntType))
          ELSE ExprErr(r.nt))
    ELSE IF op \in {"==", "!=", "<", "<=", ">", ">="}
    THEN (IF l.t = r.t
          THEN ExprOk(BoolType, set_type(r.nt, p, BoolType))
          ELSE ExprErr(r.nt))
    ELSE IF op \in {"&&", "||"}
    THEN (IF l.t = BoolType /\ r.t = BoolType
          THEN ExprOk(BoolType, set_type(r.nt, p, BoolType))
          ELSE ExprErr(r.nt))
    ELSE ExprErr(r.nt)

analyze_expr(e, p, scope, sigs, nt) ==
    CASE e.kind = "Literal" ->
            (CASE e.ty = "bool" -> ExprOk(BoolType, set_type(nt, p, BoolType))
               [] e.ty = "int" -> ExprOk(IntType, set_type(nt, p, IntType))
               [] e.ty = "str" -> ExprOk(StrType, set_type(nt, p, StrType))
               [] OTHER -> ExprOk(VoidType, set_type(nt, p, VoidType)))
      [] e.kind = "Identifier" ->
            Bind(resolve(scope, e.name), LAMBDA sym :
            IF ~sym.found THEN ExprErr(nt)
            ELSE ExprOk(sym.type, set_type(nt, p, sym.type)))
      [] e.kind = "Unary" ->
            Bind(analyze_expr(e.right, p \o <<1>>, scope, sigs, nt), LAMBDA r :
            IF ~r.ok THEN r
            ELSE IF e.op = "-" /\ r.t = IntType THEN ExprOk(IntType, set_type(r.nt, p, IntType))
            ELSE IF e.op = "!" /\ r.t = BoolType THEN ExprOk(BoolType, set_type(r.nt, p, BoolType))
            ELSE ExprErr(r.nt))
      [] e.kind = "Binary" ->
            Bind(analyze_expr(e.left, p \o <<1>>, scope, sigs, nt), LAMBDA l :
            IF ~l.ok THEN l
            ELSE Bind(analyze_expr(e.right, p \o <<2>>, scope, sigs, l.nt), LAMBDA r :
            IF ~r.ok THEN r ELSE binary_type(e.op, p, l, r)))
      [] e.kind = "Index" ->
            Bind(analyze_expr(e.array, p \o <<1>>, scope, sigs, nt), LAMBDA a :
            IF ~a.ok THEN a
            ELSE IF ~is_array_type(a.t) THEN ExprErr(a.nt)
            ELSE Bind(analyze_expr(e.index, p \o <<2>>, scope, sigs, a.nt), LAMBDA i :
            IF ~i.ok THEN i
            ELSE IF i.t # IntType THEN ExprErr(i.nt)
            ELSE ExprOk(IntType, set_type(i.nt, p, IntType))))
      [] e.kind = "AddressOf" ->
            IF e.target.kind = "Identifier"
            THEN (IF ~resolve(scope, e.target.name).found THEN ExprErr(nt)
                  ELSE ExprOk(PtrType, set_type(nt, p, PtrType)))
            ELSE IF e.target.kind = "Index"
            THEN Bind(analyze_expr(e.target.array, p \o <<1, 1>>, scope, sigs, nt), LAMBDA a :
                 IF ~a.ok THEN a
                 ELSE IF ~is_array_type(a.t) THEN ExprErr(a.nt)
                 ELSE Bind(analyze_expr(e.target.index, p \o <<1, 2>>, scope, sigs, a.nt), LAMBDA i :
                 IF ~i.ok THEN i
                 ELSE IF i.t # IntType THEN ExprErr(i.nt)
                 ELSE ExprOk(PtrType, set_type(i.nt, p, PtrType))))
            ELSE ExprErr(nt)
      [] e.kind = "Call" ->
            IF e.callee = "array_push"
            THEN IF Len(e.args) # 3 THEN ExprErr(nt)
                 ELSE Bind(analyze_expr(e.args[1], p \o <<1>>, scope, sigs, nt), LAMBDA a :
                 IF ~a.ok THEN a
                 ELSE IF ~is_array_type(a.t) THEN ExprErr(a.nt)
                 ELSE Bind(analyze_expr(e.args[2], p \o <<2>>, scope, sigs, a.nt), LAMBDA l :
                 IF ~l.ok THEN l
                 ELSE IF l.t # IntType THEN ExprErr(l.nt)
                 ELSE Bind(analyze_expr(e.args[3], p \o <<3>>, scope, sigs, l.nt), LAMBDA v :
                 IF ~v.ok THEN v
                 ELSE IF v.t # IntType THEN ExprErr(v.nt)
                 ELSE ExprOk(IntType, set_type(v.nt, p, IntType)))))
            ELSE IF e.callee = "array_pop"
            THEN IF Len(e.args) # 2 THEN ExprErr(nt)
                 ELSE Bind(analyze_expr(e.args[1], p \o <<1>>, scope, sigs, nt), LAMBDA a :
                 IF ~a.ok THEN a
                 ELSE IF ~is_array_type(a.t) THEN ExprErr(a.nt)
                 ELSE Bind(analyze_expr(e.args[2], p \o <<2>>, scope, sigs, a.nt), LAMBDA l :
                 IF ~l.ok THEN l
                 ELSE IF l.t # IntType THEN ExprErr(l.nt)
                 ELSE ExprOk(IntType, set_type(l.nt, p, IntType))))
            ELSE IF ~HasSig(sigs, e.callee) THEN ExprErr(nt)
            ELSE Bind(SigOf(sigs, e.callee), LAMBDA sig :
                 IF Len(e.args) # Len(sig.params) THEN ExprErr(nt)
                 ELSE Bind(analyze_args(e.args, sig.params, 1, p, scope, sigs, nt), LAMBDA r :
                 IF ~r.ok THEN r
                 ELSE ExprOk(sig.ret, set_type(r.nt, p, sig.ret))))
      [] OTHER -> ExprErr(nt)

StmtOk(scope, nt) == [ok |-> TRUE, scope |-> scope, nt |-> nt]
StmtErr(scope, nt) == [ok |-> FALSE, scope |-> scope, nt |-> nt]

RECURSIVE analyze_stmt(_, _, _, _, _)
RECURSIVE analyze_block(_, _, _, _, _, _)

\* for s in block: self._analyze_stmt(s, scope); statement i has path bp \o <<i>>
analyze_block(block, i, bp, scope, sigs, nt) ==
    IF i > Len(block) THEN StmtOk(scope, nt)
    ELSE Bind(analyze_stmt(block[i], bp \o <<i>>, scope, sigs, nt), LAMBDA r :
         IF ~r.ok THEN r
         ELSE analyze_block(block, i + 1, bp, r.scope, sigs, r.nt))

\* VarDecl, after the initializer (if any) gave the result r
declare_var(st, scope, r) ==
    LET has_type == st.type_name.base # "None"
        has_init == st.init.kind # "None"
    IN
    IF ~r.ok THEN StmtErr(scope, r.nt)
    ELSE IF has_type /\ has_init /\ type_from_name(st.type_name) # r.t
         THEN StmtErr(scope, r.nt)
    ELSE IF ~has_type /\ ~has_init THEN StmtErr(scope, r.nt)
    ELSE Bind(define(scope, st.name, IF has_type THEN type_from_name(st.type_name) ELSE r.t),
              LAMBDA d : IF d.ok THEN StmtOk(d.scope, r.nt) ELSE StmtErr(scope, r.nt))

analyze_stmt(st, sp, scope, sigs, nt) ==
    CASE st.kind = "VarDecl" ->
            declare_var(st, scope,
                        IF st.init.kind # "None"
                        THEN analyze_expr(st.init, sp \o <<1>>, scope, sigs, nt)
                        ELSE ExprOk(VoidType, nt))
      [] st.kind = "Assign" ->
            IF st.target.kind = "Identifier"
            THEN Bind(resolve(scope, st.target.name), LAMBDA sym :
                 IF ~sym.found THEN StmtErr(scope, nt)
                 ELSE Bind(analyze_expr(st.value, sp \o <<2>>, scope, sigs, nt), LAMBDA v :
                 IF ~v.ok \/ sym.type # v.t THEN StmtErr(scope, v.nt)
                 ELSE StmtOk(scope, v.nt)))
            ELSE IF st.target.kind = "Index"
            THEN Bind(analyze_expr(st.target.array, sp \o <<1, 1>>, scope, sigs, nt), LAMBDA a :
                 IF ~a.ok \/ ~is_array_type(a.t) THEN StmtErr(scope, a.nt)
                 ELSE Bind(analyze_expr(st.target.index, sp \o <<1, 2>>, scope, sigs, a.nt), LAMBDA i :
                 IF ~i.ok \/ i.t # IntType THEN StmtErr(scope, i.nt)
                 ELSE Bind(analyze_expr(st.value, sp \o <<2>>, scope, sigs, i.nt), LAMBDA v :
                 IF ~v.ok \/ v.t # IntType THEN StmtErr(scope, v.nt)
                 ELSE StmtOk(scope, v.nt))))
            ELSE StmtErr(scope, nt)
      [] st.kind \in {"Print", "PrintLn"} ->
            Bind(analyze_expr(st.value, sp \o <<1>>, scope, sigs, nt), LAMBDA v :
            IF ~v.ok \/ v.t \notin {IntType, StrType} THEN StmtErr(scope, v.nt)
            ELSE StmtOk(scope, v.nt))
      [] st.kind = "Return" ->
            IF st.value.kind # "None"
            THEN Bind(analyze_expr(st.value, sp \o <<1>>, scope, sigs, nt), LAMBDA v :
                 IF v.ok THEN StmtOk(scope, v.nt) ELSE StmtErr(scope, v.nt))
            ELSE StmtOk(scope, nt)
      [] st.kind = "If" ->
            Bind(analyze_expr(st.cond, sp \o <<1>>, scope, sigs, nt), LAMBDA c :
            IF ~c.ok THEN StmtErr(scope, c.nt)
            ELSE Bind(analyze_block(st.then_block, 1, sp \o <<2>>,
                                    Append(scope, EmptyDict), sigs, c.nt), LAMBDA t :
            IF ~t.ok THEN StmtErr(scope, t.nt)
            ELSE IF Len(st.else_block) > 0
                 THEN Bind(analyze_block(st.else_block, 1, sp \o <<3>>,
                                         Append(scope, EmptyDict), sigs, t.nt), LAMBDA f :
                      IF f.ok THEN StmtOk(scope, f.nt) ELSE StmtErr(scope, f.nt))
                 ELSE StmtOk(scope, t.nt)))
      [] st.kind = "While" ->
            Bind(analyze_expr(st.cond, sp \o <<1>>, scope, sigs, nt), LAMBDA c :
            IF ~c.ok THEN StmtErr(scope, c.nt)
            ELSE Bind(analyze_block(st.body, 1, sp \o <<2>>,
                                    Append(scope, EmptyDict), sigs, c.nt), LAMBDA b :
            IF b.ok THEN StmtOk(scope, b.nt) ELSE StmtErr(scope, b.nt)))
      [] st.kind = "ExprStmt" ->
            Bind(analyze_expr(st.expr, sp \o <<1>>, scope, sigs, nt), LAMBDA r :
            IF r.ok THEN StmtOk(scope, r.nt) ELSE StmtErr(scope, r.nt))
      [] OTHER -> StmtOk(scope, nt)

\* scope.define(Symbol(p.name, t)) for p, t in zip(fn.params, sig.params)
RECURSIVE define_params(_, _, _)
define_params(params, i, scope) ==
    IF i > Len(params) THEN [ok |-> TRUE, scope |-> scope]
    ELSE Bind(define(scope, params[i].name, type_from_name(params[i].type_name)), LAMBDA d :
         IF ~d.ok THEN d ELSE define_params(params, i + 1, d.scope))

analyze_function(fn, f, sigs, nt) ==
    Bind(define_params(fn.params, 1, <<EmptyDict>>), LAMBDA ps :
    IF ~ps.ok THEN [ok |-> FALSE, nt |-> nt]
    ELSE Bind(analyze_block(fn.body, 1, <<f>>, ps.scope, sigs, nt), LAMBDA b :
         LET saw_return == \E i \in 1..Len(fn.body) : fn.body[i].kind = "Return" IN
         IF ~b.ok THEN [ok |-> FALSE, nt |-> b.nt]
         ELSE IF SigOf(sigs, fn.name).ret # VoidType /\ ~saw_return
              THEN [ok |-> FALSE, nt |-> b.nt]
         ELSE [ok |-> TRUE, nt |-> b.nt]))

\* First pass: collect the signatures; a name already registered is an error.
RECURSIVE collect_sigs(_, _, _)
collect_sigs(fns, i, sigs) ==
    IF i > Len(fns) THEN [ok |-> TRUE, sigs |-> sigs]
    ELSE LET fn == fns[i]
             param_types == [k \in 1..Len(fn.params) |-> type_from_name(fn.params[k].type_name)]
             ret_type == IF fn.return_type.base # "None"
                         THEN type_from_name(fn.return_type) ELSE VoidType
         IN
         IF HasSig(sigs, fn.name) THEN [ok |-> FALSE, sigs |-> sigs]
         ELSE collect_sigs(fns, i + 1, Append(sigs, FunctionSig(fn.name, param_types, ret_type)))

\* Second pass: analyze the function bodies in order.
RECURSIVE analyze_bodies(_, _, _, _)
analyze_bodies(fns, i, sigs, nt) ==
    IF i > Len(fns) THEN [ok |-> TRUE, nt |-> nt]
    ELSE Bind(analyze_function(fns[i], i, sigs, nt), LAMBDA r :
         IF ~r.ok THEN r ELSE analyze_bodies(fns, i + 1, sigs, r.nt))

\* SemanticAnalyzer.analyze: the Context (functions, node_type), ok = FALSE
\* when a SemanticError was raised.
analyze(program) ==
    Bind(collect_sigs(program, 1, get_builtins), LAMBDA c :
    IF ~c.ok THEN [ok |-> FALSE, functions |-> c.sigs, node_type |-> EmptyDict]
    ELSE IF ~HasSig(c.sigs, "main")
         THEN [ok |-> FALSE, functions |-> c.sigs, node_type |-> EmptyDict]
    ELSE Bind(analyze_bodies(program, 1, c.sigs, EmptyDict), LAMBDA b :
         [ok |-> b.ok, functions |-> c.sigs, node_type |-> b.nt]))

\* Context.get_type; a missing entry is a KeyError (has_type tells)
has_type(ctx, p) == p \in DOMAIN ctx.node_type
get_type(ctx, p) == ctx.node_type[p]


(***************************************************************************)
(* compiler/bytecode.py                                                    *)
(***************************************************************************)
\* Instruction(op, arg); an instruction built without operand has arg None.
Instruction(op, arg) == [op |-> op, arg |-> arg]
NoArg == "None"

(***************************************************************************)
(* compiler/codegen_vm.py.  The generator object is the record g: code,    *)
(* functions (the layouts), strings, string_counter, func_name_to_index,   *)
(* and ok, FALSE once a RuntimeError was raised while lowering vm_asm.     *)
(***************************************************************************)
CodeGenVM ==
    [code |-> <<>>, functions |-> <<>>, strings |-> <<>>, string_counter |-> 0,
     func_name_to_index |-> EmptyDict, ok |-> TRUE]

\* self.code.append(Instruction(op, arg))
emit(g, op, arg) == [g EXCEPT !.code = Append(g.code, Instruction(op, arg))]

\* The placeholder is left as emitted (arg 0): the assignment is missing
patch_skipped(g, index, target) == g

\* self.code[index].arg = target
patch(g, index, target) == [g EXCEPT !.code[index + 1].arg = target]

add_string(g, value) ==
    [g EXCEPT !.strings = Append(g.strings, value),
              !.string_counter = g.string_counter + 1]

FunctionLayout(name, num_locals, local_index, entry_pc, arrays, num_params) ==
    [name |-> name, num_locals |-> num_locals, local_index |-> local_index,
     entry_pc |-> entry_pc, arrays |-> arrays, num_params |-> num_params]

\* for p in fn.params: the first occurrence of a name takes the next index
RECURSIVE layout_params(_, _, _)
layout_params(params, i, L) ==
    IF i > Len(params) THEN L
    ELSE IF params[i].name \in DOMAIN L.local_index
         THEN layout_params(params, i + 1, L)
         ELSE layout_params(params, i + 1,
                [L EXCEPT !.local_index = (params[i].name :> L.next_idx) @@ L.local_index,
                          !.next_idx = L.next_idx + 1])

RECURSIVE visit_stmt(_, _)
RECURSIVE visit_stmts(_, _, _)

visit_stmts(block, i, L) ==
    IF i > Len(block) THEN L
    ELSE visit_stmts(block, i + 1, visit_stmt(block[i], L))

visit_stmt(st, L) ==
    CASE st.kind = "VarDecl" ->
            IF st.name \in DOMAIN L.local_index THEN L
            ELSE IF st.type_name.arr /\ st.type_name.n > 0
                 THEN [L EXCEPT !.local_index = (st.name :> L.next_idx) @@ L.local_index,
                                !.arrays = (st.name :> st.type_name.n) @@ L.arrays,
                                !.next_idx = L.next_idx + st.type_name.n]
                 ELSE [L EXCEPT !.local_index = (st.name :> L.next_idx) @@ L.local_index,
                                !.next_idx = L.next_idx + 1]
      [] st.kind = "If" ->
            Bind(visit_stmts(st.then_block, 1, L), LAMBDA t :
            IF Len(st.else_block) > 0 THEN visit_stmts(st.else_block, 1, t) ELSE t)
      [] st.kind = "While" -> visit_stmts(st.body, 1, L)
      [] OTHER -> L

build_layout(fn) ==
    Bind(visit_stmts(fn.body, 1,
            layout_params(fn.params, 1,
                [local_index |-> EmptyDict, arrays |-> EmptyDict, next_idx |-> 0])),
         LAMBDA L :
         FunctionLayout(fn.name, L.next_idx, L.local_index, 0, L.arrays, Len(fn.params)))

RECURSIVE emit_expr(_, _, _)
RECURSIVE emit_exprs(_, _, _, _)

\* for arg_expr in e.args: self._emit_expr(arg_expr, layout, ctx)
emit_exprs(es, i, layout, g) ==
    IF i > Len(es) THEN g
    ELSE emit_exprs(es, i + 1, layout, emit_expr(es[i], layout, g))

\* e.op == '&&'
emit_and(e, layout, g) ==
    Bind(emit_expr(e.left, layout, g), LAMBDA g1 :
    Bind(emit_expr(e.right, layout, emit(g1, "JZ", 0)), LAMBDA g3 :
    LET jz_index == Len(g1.code)
        jz2_index == Len(g3.code)
        g4 == emit(g3, "JZ", 0)
        g5 == emit(g4, "PUSH_INT", 1)
        jmp_end_index == Len(g5.code)
        g6 == emit(g5, "JMP", 0)
        false_pc == Len(g6.code)
        g7 == emit(g6, "PUSH_INT", 0)
        end_pc == Len(g7.code)
    IN patch(patch(patch(g7, jz_index, false_pc), jz2_index, false_pc),
             jmp_end_index, end_pc)))

\* e.op == '||'
emit_or(e, layout, g) ==
    Bind(emit_expr(e.left, layout, g), LAMBDA g1 :
    Bind(emit_expr(e.right, layout, emit(g1, "JNZ", 0)), LAMBDA g3 :
    LET jnz_index == Len(g1.code)
        jnz2_index == Len(g3.code)
        g4 == emit(g3, "JNZ", 0)
        g5 == emit(g4, "PUSH_INT", 0)
        jmp_end_index == Len(g5.code)
        g6 == emit(g5, "JMP", 0)
        true_pc == Len(g6.code)
        g7 == emit(g6, "PUSH_INT", 1)
        end_pc == Len(g7.code)
    IN patch(patch(patch(g7, jnz_index, true_pc), jnz2_index, true_pc),
             jmp_end_index, end_pc)))

\* The opcode of a non-short-circuit binary operator; "" when none is emitted.
binary_opcode(op) ==
    CASE op = "+" -> "ADD"
      [] op = "-" -> "SUB"
      [] op = "*" -> "MUL"
      [] op = "/" -> "DIV"
      [] op = "==" -> "CMP_EQ"
      [] op = "!=" -> "CMP_NE"
      [] op = "<" -> "CMP_LT"
      [] op = "<=" -> "CMP_LE"
      [] op = ">" -> "CMP_GT"
      [] op = ">=" -> "CMP_GE"
      [] OTHER -> ""

\* isinstance(x, A.Identifier) and x.name in layout.arrays
is_local_array(x, layout) ==
    x.kind = "Identifier" /\ x.name \in DOMAIN layout.arrays

\* Regular user-defined function call
emit_user_call(e, layout, g) ==
    IF e.callee \notin DOMAIN g.func_name_to_index
    THEN emit(g, "PUSH_INT", 0)
    ELSE emit(emit_exprs(e.args, 1, layout, g), "CALL", g.func_name_to_index[e.callee])

emit_call(e, layout, g) ==
    LET name == e.callee
        n == Len(e.args)
    IN
    CASE name = "array_push" /\ n = 3 ->
            IF is_local_array(e.args[1], layout)
            THEN LET base == layout.local_index[e.args[1].name]
                     g1 == emit_expr(e.args[3], layout, g)
                     g2 == emit_expr(e.args[2], layout, g1)
                     g3 == emit(g2, "STORE_LOCAL_IDX", base)
                     g4 == emit_expr(e.args[2], layout, g3)
                 IN emit(emit(g4, "PUSH_INT", 1), "ADD", NoArg)
            ELSE emit(emit(emit_expr(e.args[2], layout, g), "PUSH_INT", 1), "ADD", NoArg)
      [] name = "array_pop" /\ n = 2 ->
            IF is_local_array(e.args[1], layout)
            THEN LET base == layout.local_index[e.args[1].name]
                     g1 == emit_expr(e.args[2], layout, g)
                 IN emit(emit(emit(g1, "PUSH_INT", 1), "SUB", NoArg), "LOAD_LOCAL_IDX", base)
            ELSE emit(g, "PUSH_INT", 0)
      [] name = "load16" /\ n = 1 ->
            emit(emit_expr(e.args[1], layout, g), "LOAD_INDIRECT", NoArg)
      [] name = "store16" /\ n = 2 ->
            LET g1 == emit_expr(e.args[1], layout, g)
                g2 == emit_expr(e.args[2], layout, g1)
            IN emit(emit(g2, "STORE_INDIRECT", NoArg), "PUSH_INT", 0)
      [] name = "memcpy" /\ n = 3 ->
            emit(emit(emit_exprs(e.args, 1, layout, g), "MEMCPY_LOCALS", NoArg), "PUSH_INT", 0)
      [] name = "memset" /\ n = 3 ->
            emit(emit(emit_exprs(e.args, 1, layout, g), "MEMSET_LOCALS", NoArg), "PUSH_INT", 0)
      [] name = "ct_eq" /\ n = 2 ->
            emit(emit_exprs(e.args, 1, layout, g), "CMP_EQ", NoArg)
      [] name = "ct_select" /\ n = 3 ->
            LET g1 == emit_expr(e.args[2], layout, g)
                g2 == emit_expr(e.args[3], layout, g1)
                g3 == emit(g2, "SUB", NoArg)
                g4 == emit_expr(e.args[1], layout, g3)
                g5 == emit(g4, "MUL", NoArg)
                g6 == emit_expr(e.args[3], layout, g5)
            IN emit(g6, "ADD", NoArg)
      [] OTHER -> emit_user_call(e, layout, g)

emit_expr(e, layout, g) ==
    CASE e.kind = "Literal" ->
            (CASE e.ty = "bool" -> emit(g, "PUSH_INT", IF e.value THEN 1 ELSE 0)
               [] e.ty = "int" -> emit(g, "PUSH_INT", e.value)
               [] e.ty = "str" -> emit(add_string(g, e.value), "PUSH_INT", g.string_counter)
               [] OTHER -> g)
      [] e.kind = "Identifier" ->
            IF e.name \in DOMAIN layout.local_index
            THEN emit(g, "LOAD_LOCAL", layout.local_index[e.name])
            ELSE emit(g, "PUSH_INT", 0)
      [] e.kind = "AddressOf" ->
            IF e.target.kind = "Identifier"
            THEN (IF e.target.name \in DOMAIN layout.local_index
                  THEN emit(g, "PUSH_INT", layout.local_index[e.target.name])
                  ELSE emit(g, "PUSH_INT", 0))
            ELSE IF e.target.kind = "Index" /\ e.target.array.kind = "Identifier"
            THEN (IF e.target.array.name \in DOMAIN layout.arrays
                  THEN LET base == layout.local_index[e.target.array.name]
                           g1 == emit_expr(e.target.index, layout, g)
                       IN emit(emit(g1, "PUSH_INT", base), "ADD", NoArg)
                  ELSE emit(g, "PUSH_INT", 0))
            ELSE emit(g, "PUSH_INT", 0)
      [] e.kind = "Unary" ->
            Bind(emit_expr(e.right, layout, g), LAMBDA g1 :
            IF e.op = "-" THEN emit(g1, "NEG", NoArg)
            ELSE IF e.op = "!" THEN emit(g1, "NOT", NoArg)
            ELSE g1)
      [] e.kind = "Binary" ->
            IF e.op = "&&" THEN emit_and(e, layout, g)
            ELSE IF e.op = "||" THEN emit_or(e, layout, g)
            ELSE Bind(emit_expr(e.right, layout, emit_expr(e.left, layout, g)), LAMBDA g2 :
                 IF binary_opcode(e.op) # ""
                 THEN emit(g2, binary_opcode(e.op), NoArg) ELSE g2)
      [] e.kind = "Index" ->
            IF is_local_array(e.array, layout)
            THEN emit(emit_expr(e.index, layout, g), "LOAD_LOCAL_IDX",
                      layout.local_index[e.array.name])
            ELSE emit(g, "PUSH_INT", 0)
      [] e.kind = "Call" -> emit_call(e, layout, g)
      [] OTHER -> g

\* One vm_asm line, already split into op and args (parts[0], parts[1:]).
\* A push_int operand is the integer int(args[0], 0) yields.
vm_asm_line(line, layout, g) ==
    LET op == line.op
        args == line.args
    IN
    CASE op = "push_int" /\ Len(args) = 1 -> emit(g, "PUSH_INT", args[1])
      [] op = "load_local" /\ Len(args) = 1 ->
            IF args[1] \notin DOMAIN layout.local_index THEN [g EXCEPT !.ok = FALSE]
            ELSE emit(g, "LOAD_LOCAL", layout.local_index[args[1]])
      [] op = "store_local" /\ Len(args) = 1 ->
            IF args[1] \notin DOMAIN layout.local_index THEN [g EXCEPT !.ok = FALSE]
            ELSE emit(g, "STORE_LOCAL", layout.local_index[args[1]])
      [] op = "add" /\ Len(args) = 0 -> emit(g, "ADD", NoArg)
      [] op = "sub" /\ Len(args) = 0 -> emit(g, "SUB", NoArg)
      [] op = "mul" /\ Len(args) = 0 -> emit(g, "MUL", NoArg)
      [] op = "div" /\ Len(args) = 0 -> emit(g, "DIV", NoArg)
      [] op = "neg" /\ Len(args) = 0 -> emit(g, "NEG", NoArg)
      [] op = "not" /\ Len(args) = 0 -> emit(g, "NOT", NoArg)
      [] op = "cmp_eq" /\ Len(args) = 0 -> emit(g, "CMP_EQ", NoArg)
      [] op = "cmp_ne" /\ Len(args) = 0 -> emit(g, "CMP_NE", NoArg)
      [] op = "cmp_lt" /\ Len(args) = 0 -> emit(g, "CMP_LT", NoArg)
      [] op = "cmp_le" /\ Len(args) = 0 -> emit(g, "CMP_LE", NoArg)
      [] op = "cmp_gt" /\ Len(args) = 0 -> emit(g, "CMP_GT", NoArg)
      [] op = "cmp_ge" /\ Len(args) = 0 -> emit(g, "CMP_GE", NoArg)
      [] OTHER -> [g EXCEPT !.ok = FALSE]

RECURSIVE emit_vm_asm(_, _, _, _)
emit_vm_asm(lines, i, layout, g) ==
    IF ~g.ok \/ i > Len(lines) THEN g
    ELSE emit_vm_asm(lines, i + 1, layout, vm_asm_line(lines[i], layout, g))

RECURSIVE emit_stmt(_, _, _, _, _)
RECURSIVE emit_stmts(_, _, _, _, _, _)

\* for s in block: self._emit_stmt(s, layout, ctx); statement i has path bp \o <<i>>
emit_stmts(block, i, bp, layout, ctx, g) ==
    IF ~g.ok \/ i > Len(block) THEN g
    ELSE emit_stmts(block, i + 1, bp, layout, ctx,
                    emit_stmt(block[i], bp \o <<i>>, layout, ctx, g))

\* for offset in range(length): PUSH_INT 0; STORE_LOCAL idx + offset
RECURSIVE zero_array(_, _, _, _)
zero_array(g, idx, offset, length) ==
    IF offset >= length THEN g
    ELSE zero_array(emit(emit(g, "PUSH_INT", 0), "STORE_LOCAL", idx + offset),
                    idx, offset + 1, length)

emit_if(st, sp, layout, ctx, g) ==
    Bind(emit_expr(st.cond, layout, g), LAMBDA g1 :
    Bind(emit_stmts(st.then_block, 1, sp \o <<2>>, layout, ctx, emit(g1, "JZ", 0)), LAMBDA g3 :
    LET jz_index == Len(g1.code)
        jmp_index == Len(g3.code)
        g4 == emit(g3, "JMP", 0)
        else_start == Len(g4.code)
        g5 == patch(g4, jz_index, else_start)
    IN Bind(IF Len(st.else_block) > 0
            THEN emit_stmts(st.else_block, 1, sp \o <<3>>, layout, ctx, g5)
            ELSE g5,
            LAMBDA g6 : patch(g6, jmp_index, Len(g6.code)))))

emit_while(st, sp, layout, ctx, g) ==
    Bind(emit_expr(st.cond, layout, g), LAMBDA g1 :
    Bind(emit_stmts(st.body, 1, sp \o <<2>>, layout, ctx, emit(g1, "JZ", 0)), LAMBDA g3 :
    LET loop_start == Len(g.code)
        jz_index == Len(g1.code)
        g4 == emit(g3, "JMP", loop_start)
        loop_end == Len(g4.code)
    IN patch(g4, jz_index, loop_end)))

emit_stmt(st, sp, layout, ctx, g) ==
    CASE st.kind = "VarDecl" ->
            LET idx == layout.local_index[st.name] IN
            IF st.name \in DOMAIN layout.arrays
            THEN zero_array(g, idx, 0, layout.arrays[st.name])
            ELSE LET g1 == IF st.init.kind # "None"
                           THEN emit_expr(st.init, layout, g)
                           ELSE emit(g, "PUSH_INT", 0)
                 IN emit(g1, "STORE_LOCAL", idx)
      [] st.kind = "Assign" ->
            IF st.target.kind = "Identifier"
            THEN (IF st.target.name \in DOMAIN layout.local_index
                  THEN emit(emit_expr(st.value, layout, g), "STORE_LOCAL",
                            layout.local_index[st.target.name])
                  ELSE g)
            ELSE IF st.target.kind = "Index" /\ st.target.array.kind = "Identifier"
            THEN (IF st.target.array.name \in DOMAIN layout.arrays
                  THEN LET base == layout.local_index[st.target.array.name]
                           g1 == emit_expr(st.value, layout, g)
                           g2 == emit_expr(st.target.index, layout, g1)
                       IN emit(g2, "STORE_LOCAL_IDX", base)
                  ELSE g)
            ELSE g
      [] st.kind = "Print" ->
            Bind(emit_expr(st.value, layout, g), LAMBDA g1 :
            IF get_type(ctx, sp \o <<1>>) = StrType
            THEN emit(g1, "PRINT_STR", NoArg) ELSE emit(g1, "PRINT_INT", NoArg))
      [] st.kind = "PrintLn" ->
            Bind(emit_expr(st.value, layout, g), LAMBDA g1 :
            IF get_type(ctx, sp \o <<1>>) = StrType
            THEN emit(g1, "PRINTLN_STR", NoArg) ELSE emit(g1, "PRINTLN_INT", NoArg))
      [] st.kind = "Return" ->
            LET g1 == IF st.value.kind # "None"
                      THEN emit_expr(st.value, layout, g)
                      ELSE emit(g, "PUSH_INT", 0)
            IN emit(g1, "RET", NoArg)
      [] st.kind = "ExprStmt" -> emit_expr(st.expr, layout, g)
      [] st.kind = "If" -> emit_if(st, sp, layout, ctx, g)
      [] st.kind = "While" -> emit_while(st, sp, layout, ctx, g)
      [] st.kind = "InlineAsm" -> g
      [] st.kind = "VmAsm" -> emit_vm_asm(st.code, 1, layout, g)
      [] OTHER -> g

\* fn is function number f of the program
emit_function(fn, f, layout, ctx, g) ==
    Bind(emit_stmts(fn.body, 1, <<f>>, layout, ctx, g), LAMBDA g1 :
    emit(IF fn.return_type.base = "None"
            \/ (fn.return_type.base = "int" /\ ~fn.return_type.arr)
         THEN emit(g1, "PUSH_INT", 0) ELSE g1,
         "RET", NoArg))

\* The loop of generate over program.functions
RECURSIVE generate_functions(_, _, _, _)
generate_functions(program, f, ctx, g) ==
    IF ~g.ok \/ f > Len(program) THEN g
    ELSE Bind([build_layout(program[f]) EXCEPT !.entry_pc = Len(g.code)], LAMBDA layout :
         LET fn == program[f]
             fn_index == Len(g.functions)
             g1 == [g EXCEPT !.functions = Append(g.functions, layout),
                             !.func_name_to_index = (fn.name :> fn_index) @@ g.func_name_to_index]
         IN generate_functions(program, f + 1, ctx, emit_function(fn, f, layout, ctx, g1)))

FunctionInfo(name, entry_pc, num_locals, num_params) ==
    [name |-> name, entry_pc |-> entry_pc, num_locals |-> num_locals,
     num_params |-> num_params]

\* CodeGenVM.generate: (code, fns, strings), with the layouts kept beside
generate(program, ctx) ==
    Bind(generate_functions(program, 1, ctx, CodeGenVM), LAMBDA g :
    [ok |-> g.ok,
     code |-> g.code,
     fns |-> [i \in 1..Len(g.functions) |->
                FunctionInfo(g.functions[i].name, g.functions[i].entry_pc,
                             g.functions[i].num_locals, g.functions[i].num_params)],
     strings |-> g.strings,
     layouts |-> g.functions])


(***************************************************************************)
(* The source programs that are compiled and run (the inputs).  A and B    *)
(* are two integer literals of the source text.                            *)
(***************************************************************************)
IntT == TypeName("int")
Id(name) == Identifier(name)
IfThen(cond, then_block) == If(cond, then_block, <<>>)
Let(name, type_name, init) == VarDecl(name, type_name, init)
Main(return_type, body) == Function("main", <<>>, return_type, body)

\* fn main(): int { println(A + B); println(A - B); println(A * B);
\*                  println(-A); println(A / B); println((0 - A) / B);
\*                  return A / B; }
ProgArith(A, B) ==
    << Main(IntT, <<
         PrintLnStmt(Binary(IntLit(A), "+", IntLit(B))),
         PrintLnStmt(Binary(IntLit(A), "-", IntLit(B))),
         PrintLnStmt(Binary(IntLit(A), "*", IntLit(B))),
         PrintLnStmt(Unary("-", IntLit(A))),
         PrintLnStmt(Binary(IntLit(A), "/", IntLit(B))),
         PrintLnStmt(Binary(Binary(IntLit(0), "-", IntLit(A)), "/", IntLit(B))),
         Return(Binary(IntLit(A), "/", IntLit(B))) >>) >>

\* fn main(): int { let r: int = 0;
\*   if (A < B) { r = r + 1; }   if (A <= B) { r = r + 2; }
\*   if (A > B) { r = r + 4; }   if (A >= B) { r = r + 8; }
\*   if (A == B) { r = r + 16; } if (A != B) { r = r + 32; }
\*   if (0 - A < B) { r = r + 64; }
\*   println(r); return A; }
Bump(k) == Assign(Id("r"), Binary(Id("r"), "+", IntLit(k)))
ProgCompare(A, B) ==
    << Main(IntT, <<
         Let("r", IntT, IntLit(0)),
         IfThen(Binary(IntLit(A), "<", IntLit(B)), <<Bump(1)>>),
         IfThen(Binary(IntLit(A), "<=", IntLit(B)), <<Bump(2)>>),
         IfThen(Binary(IntLit(A), ">", IntLit(B)), <<Bump(4)>>),
         IfThen(Binary(IntLit(A), ">=", IntLit(B)), <<Bump(8)>>),
         IfThen(Binary(IntLit(A), "==", IntLit(B)), <<Bump(16)>>),
         IfThen(Binary(IntLit(A), "!=", IntLit(B)), <<Bump(32)>>),
         IfThen(Binary(Binary(IntLit(0), "-", IntLit(A)), "<", IntLit(B)), <<Bump(64)>>),
         PrintLnStmt(Id("r")),
         Return(IntLit(A)) >>) >>

\* fn side(x: int): bool { println("boom"); return x == 1; }
\* fn main(): int { if (A == 1 && side(B)) { println("and"); }
\*                  if (A == 1 || side(B)) { println("or"); } return 0; }
ProgShortCircuit(A, B) ==
    << Function("side", <<Param("x", IntT)>>, TypeName("bool"), <<
         PrintLnStmt(StrLit("boom")),
         Return(Binary(Id("x"), "==", IntLit(1))) >>),
       Main(IntT, <<
         IfThen(Binary(Binary(IntLit(A), "==", IntLit(1)), "&&", Call("side", <<IntLit(B)>>)),
                <<PrintLnStmt(StrLit("and"))>>),
         IfThen(Binary(Binary(IntLit(A), "==", IntLit(1)), "||", Call("side", <<IntLit(B)>>)),
                <<PrintLnStmt(StrLit("or"))>>),
         Return(IntLit(0)) >>) >>

\* fn say(x: int): int { println(x); return x; }
\* fn sub(a: int, b: int): int { return a - b; }
\* fn main(): int { println(sub(say(5), say(3))); return 0; }
ProgCallBackward ==
    << Function("say", <<Param("x", IntT)>>, IntT, <<
         PrintLnStmt(Id("x")), Return(Id("x")) >>),
       Function("sub", <<Param("a", IntT), Param("b", IntT)>>, IntT, <<
         Return(Binary(Id("a"), "-", Id("b"))) >>),
       Main(IntT, <<
         PrintLnStmt(Call("sub", <<Call("say", <<IntLit(5)>>), Call("say", <<IntLit(3)>>)>>)),
         Return(IntLit(0)) >>) >>

\* fn main(): int { println(twice(4)); return 0; }
\* fn twice(x: int): int { println(x); return x + x; }
ProgCallForward ==
    << Main(IntT, <<
         PrintLnStmt(Call("twice", <<IntLit(4)>>)),
         Return(IntLit(0)) >>),
       Function("twice", <<Param("x", IntT)>>, IntT, <<
         PrintLnStmt(Id("x")), Return(Binary(Id("x"), "+", Id("x"))) >>) >>

\* fn even(n: int): bool { if (n == 0) { return true; } return odd(n - 1); }
\* fn odd(n: int): bool { if (n == 0) { return false; } return even(n - 1); }
\* fn main(): int { if (even(2)) { println(1); } else { println(0); } return 0; }
ProgMutual ==
    << Function("even", <<Param("n", IntT)>>, TypeName("bool"), <<
         IfThen(Binary(Id("n"), "==", IntLit(0)), <<Return(BoolLit(TRUE))>>),
         Return(Call("odd", <<Binary(Id("n"), "-", IntLit(1))>>)) >>),
       Function("odd", <<Param("n", IntT)>>, TypeName("bool"), <<
         IfThen(Binary(Id("n"), "==", IntLit(0)), <<Return(BoolLit(FALSE))>>),
         Return(Call("even", <<Binary(Id("n"), "-", IntLit(1))>>)) >>),
       Main(IntT, <<
         If(Call("even", <<IntLit(2)>>), <<PrintLnStmt(IntLit(1))>>, <<PrintLnStmt(IntLit(0))>>),
         Return(IntLit(0)) >>) >>

\* fn f(a: int): int { a + 1; return a; }
\* fn main(): int { println(f(3)); return 0; }
ProgExprStmt ==
    << Function("f", <<Param("a", IntT)>>, IntT, <<
         ExprStmt(Binary(Id("a"), "+", IntLit(1))), Return(Id("a")) >>),
       Main(IntT, <<
         PrintLnStmt(Call("f", <<IntLit(3)>>)), Return(IntLit(0)) >>) >>

\* fn t(): bool { 1 + 1; return true; }
\* fn main(): int { if (true && t()) { println(1); } return 0; }
ProgLeakAnd ==
    << Function("t", <<>>, TypeName("bool"), <<
         ExprStmt(Binary(IntLit(1), "+", IntLit(1))), Return(BoolLit(TRUE)) >>),
       Main(IntT, <<
         IfThen(Binary(BoolLit(TRUE), "&&", Call("t", <<>>)), <<PrintLnStmt(IntLit(1))>>),
         Return(IntLit(0)) >>) >>

\* fn v(): void { }
\* fn main(): int { if (v() == v()) { println(1); } return 0; }
ProgVoidCallee ==
    << Function("v", <<>>, TypeName("void"), <<>>),
       Main(IntT, <<
         IfThen(Binary(Call("v", <<>>), "==", Call("v", <<>>)), <<PrintLnStmt(IntLit(1))>>),
         Return(IntLit(0)) >>) >>

\* fn main(): int { let i: int = 0; while (i < 3) { println(i); i = i + 1; } return 0; }
ProgWhile ==
    << Main(IntT, <<
         Let("i", IntT, IntLit(0)),
         While(Binary(Id("i"), "<", IntLit(3)), <<
           PrintLnStmt(Id("i")),
           Assign(Id("i"), Binary(Id("i"), "+", IntLit(1))) >>),
         Return(IntLit(0)) >>) >>

\* fn main(): int { println("go"); while (true) { } return 0; }
ProgSpin ==
    << Main(IntT, <<
         PrintLnStmt(StrLit("go")),
         While(BoolLit(TRUE), <<>>),
         Return(IntLit(0)) >>) >>

\* fn main(): int {
\*   let xs: int[3]; let n: int = 0;
\*   xs[0] = 10; n = array_push(xs, 1, 20);
\*   println(xs[1]); println(array_pop(xs, n));
\*   store16(&xs[2], 30); println(load16(&xs[2]));
\*   memset(&xs[0], 7, 2); memcpy(&xs[1], &xs[0], 2); println(xs[2]);
\*   if (!ct_eq(xs[0], 7)) { print("ne"); }
\*   print(ct_select(1, 5, 6));
\*   vm_asm { push_int 9; store_local n; load_local n; push_int 1; add; store_local n; }
\*   asm "nop";
\*   print(n); return 0; }
AsmLine(op, args) == [op |-> op, args |-> args]
Xs(i) == Index(Id("xs"), IntLit(i))
ProgMemory ==
    << Main(IntT, <<
         Let("xs", ArrayTypeName(3), NoneNode),
         Let("n", IntT, IntLit(0)),
         Assign(Xs(0), IntLit(10)),
         Assign(Id("n"), Call("array_push", <<Id("xs"), IntLit(1), IntLit(20)>>)),
         PrintLnStmt(Xs(1)),
         PrintLnStmt(Call("array_pop", <<Id("xs"), Id("n")>>)),
         ExprStmt(Call("store16", <<AddressOf(Xs(2)), IntLit(30)>>)),
         PrintLnStmt(Call("load16", <<AddressOf(Xs(2))>>)),
         ExprStmt(Call("memset", <<AddressOf(Xs(0)), IntLit(7), IntLit(2)>>)),
         ExprStmt(Call("memcpy", <<AddressOf(Xs(1)), AddressOf(Xs(0)), IntLit(2)>>)),
         PrintLnStmt(Xs(2)),
         IfThen(Unary("!", Call("ct_eq", <<Xs(0), IntLit(7)>>)), <<PrintStmt(StrLit("ne"))>>),
         PrintStmt(Call("ct_select", <<IntLit(1), IntLit(5), IntLit(6)>>)),
         VmAsm(<< AsmLine("push_int", <<9>>), AsmLine("store_local", <<"n">>),
                  AsmLine("load_local", <<"n">>), AsmLine("push_int", <<1>>),
                  AsmLine("add", <<>>), AsmLine("store_local", <<"n">>) >>),
         InlineAsm("nop"),
         PrintStmt(Id("n")),
         Return(IntLit(0)) >>) >>

\* fn main() { println(1); }
ProgNoReturn == << Main(NoTypeName, << PrintLnStmt(IntLit(1)) >>) >>

\* fn main(): void { 5; }
ProgVoidMain == << Main(TypeName("void"), << ExprStmt(IntLit(5)) >>) >>

\* fn main(): int { print("n = "); println(42); return 0; }
ProgHello ==
    << Main(IntT, << PrintStmt(StrLit("n = ")), PrintLnStmt(IntLit(42)),
                     Return(IntLit(0)) >>) >>

\* fn main(): int {
\*   let s: str = "hi";
\*   if ("a" == "a") { println(1); } else { println(0); }
\*   if ("a" != "a") { println(1); } else { println(0); }
\*   if (s == s) { println(1); } else { println(0); }
\*   if ("a" == "b") { println(1); } else { println(0); }
\*   return 0; }
Say(cond) == If(cond, << PrintLnStmt(IntLit(1)) >>, << PrintLnStmt(IntLit(0)) >>)
ProgStrEq ==
    << Main(IntT, <<
         Let("s", TypeName("str"), StrLit("hi")),
         Say(Binary(StrLit("a"), "==", StrLit("a"))),
         Say(Binary(StrLit("a"), "!=", StrLit("a"))),
         Say(Binary(Id("s"), "==", Id("s"))),
         Say(Binary(StrLit("a"), "==", StrLit("b"))),
         Return(IntLit(0)) >>) >>

\* fn main(): bool { return true; }
ProgBoolMain == << Main(TypeName("bool"), << Return(BoolLit(TRUE)) >>) >>

\* fn main(): int {
\*   let x: int = 1;
\*   if (true) { let x: int = 2; println(x); }
\*   if (true) { let x: int[2]; x[1] = 9; println(x[1]); }
\*   println(x); return 0; }
ProgShadow ==
    << Main(IntT, <<
         Let("x", IntT, IntLit(1)),
         IfThen(BoolLit(TRUE), << Let("x", IntT, IntLit(2)), PrintLnStmt(Id("x")) >>),
         IfThen(BoolLit(TRUE), << Let("x", ArrayTypeName(2), NoneNode),
                                  Assign(Index(Id("x"), IntLit(1)), IntLit(9)),
                                  PrintLnStmt(Index(Id("x"), IntLit(1))) >>),
         PrintLnStmt(Id("x")),
         Return(IntLit(0)) >>) >>

\* fn pick(n: int): int { if (n > 0 && n < 5) { return 1; } return 0; }
\* fn count(n: int): void { let i: int = 0; while (i < n) { i = i + 1; } }
\* fn main(): int { count(2); println(pick(1));
\*   if (pick(0) == 1 || false) { println(9); } else { println(8); }
\*   return 0; }
ProgJumps ==
    << Function("pick", << Param("n", IntT) >>, IntT, <<
         IfThen(Binary(Binary(Id("n"), ">", IntLit(0)), "&&",
                       Binary(Id("n"), "<", IntLit(5))),
                << Return(IntLit(1)) >>),
         Return(IntLit(0)) >>),
       Function("count", << Param("n", IntT) >>, TypeName("void"), <<
         Let("i", IntT, IntLit(0)),
         While(Binary(Id("i"), "<", Id("n")),
               << Assign(Id("i"), Binary(Id("i"), "+", IntLit(1))) >>) >>),
       Main(IntT, <<
         ExprStmt(Call("count", << IntLit(2) >>)),
         PrintLnStmt(Call("pick", << IntLit(1) >>)),
         If(Binary(Binary(Call("pick", << IntLit(0) >>), "==", IntLit(1)), "||",
                   BoolLit(FALSE)),
            << PrintLnStmt(IntLit(9)) >>, << PrintLnStmt(IntLit(8)) >>),
         Return(IntLit(0)) >>) >>

\* fn f(a: int, b: int): int { println(a); println(b);
\*   a = 1; store16(&b, 2); return a + b; }
\* fn main(): int { let x: int = 5; let y: int = 6;
\*   println(f(A, B)); println(x); println(y); return 0; }
ProgCallArgs(A, B) ==
    << Function("f", << Param("a", IntT), Param("b", IntT) >>, IntT, <<
         PrintLnStmt(Id("a")),
         PrintLnStmt(Id("b")),
         Assign(Id("a"), IntLit(1)),
         ExprStmt(Call("store16", << AddressOf(Id("b")), IntLit(2) >>)),
         Return(Binary(Id("a"), "+", Id("b"))) >>),
       Main(IntT, <<
         Let("x", IntT, IntLit(5)),
         Let("y", IntT, IntLit(6)),
         PrintLnStmt(Call("f", << IntLit(A), IntLit(B) >>)),
         PrintLnStmt(Id("x")),
         PrintLnStmt(Id("y")),
         Return(IntLit(0)) >>) >>

\* The programs whose text holds the literals A and B
\* fn f(xs: int[2], k: int): int { xs[1] = 5; println(xs[1]); println(k);
\*   return xs[1]; }
\* fn main(): int { let a: int[2]; a[1] = 3; println(f(a, 9)); println(a[1]);
\*   return 0; }
ProgArrayParam ==
    << Function("f", << Param("xs", ArrayTypeName(2)), Param("k", IntT) >>, IntT, <<
         Assign(Index(Id("xs"), IntLit(1)), IntLit(5)),
         PrintLnStmt(Index(Id("xs"), IntLit(1))),
         PrintLnStmt(Id("k")),
         Return(Index(Id("xs"), IntLit(1))) >>),
       Main(IntT, <<
         Let("a", ArrayTypeName(2), NoneNode),
         Assign(Index(Id("a"), IntLit(1)), IntLit(3)),
         PrintLnStmt(Call("f", << Id("a"), IntLit(9) >>)),
         PrintLnStmt(Index(Id("a"), IntLit(1))),
         Return(IntLit(0)) >>) >>

\* fn tick(): int { println(7); return 1; }
\* fn main(): int { let xs: int[3]; let n: int = array_push(xs, tick(), 5);
\*   println(n); println(ct_select(1, 5, tick())); return 0; }
ProgTick ==
    << Function("tick", <<>>, IntT, << PrintLnStmt(IntLit(7)), Return(IntLit(1)) >>),
       Main(IntT, <<
         Let("xs", ArrayTypeName(3), NoneNode),
         Let("n", IntT, Call("array_push", << Id("xs"), Call("tick", <<>>), IntLit(5) >>)),
         PrintLnStmt(Id("n")),
         PrintLnStmt(Call("ct_select", << IntLit(1), IntLit(5), Call("tick", <<>>) >>)),
         Return(IntLit(0)) >>) >>

\* fn main(): int { let xs: int[2]; let y: int = 5; xs[A] = 9; println(y);
\*   let n: int = array_push(xs, B, 8); println(y); return 0; }
ProgNeighbour(A, B) ==
    << Main(IntT, <<
         Let("xs", ArrayTypeName(2), NoneNode),
         Let("y", IntT, IntLit(5)),
         Assign(Index(Id("xs"), IntLit(A)), IntLit(9)),
         PrintLnStmt(Id("y")),
         Let("n", IntT, Call("array_push", << Id("xs"), IntLit(B), IntLit(8) >>)),
         PrintLnStmt(Id("y")),
         Return(IntLit(0)) >>) >>

\* fn main(): int { let i: int = 0; while (i < 3) { store16(&i, i + 1); }
\*   return 0; }
ProgLoopLeak ==
    << Main(IntT, <<
         Let("i", IntT, IntLit(0)),
         While(Binary(Id("i"), "<", IntLit(3)), <<
           ExprStmt(Call("store16", << AddressOf(Id("i")),
                                       Binary(Id("i"), "+", IntLit(1)) >>)) >>),
         Return(IntLit(0)) >>) >>

Parametric == {1, 2, 3, 23, 26}

Program(i, A, B) ==
    CASE i = 1 -> ProgArith(A, B)
      [] i = 2 -> ProgCompare(A, B)
      [] i = 3 -> ProgShortCircuit(A, B)
      [] i = 4 -> ProgCallBackward
      [] i = 5 -> ProgCallForward
      [] i = 6 -> ProgMutual
      [] i = 7 -> ProgExprStmt
      [] i = 8 -> ProgLeakAnd
      [] i = 9 -> ProgVoidCallee
      [] i = 10 -> ProgWhile
      [] i = 11 -> ProgSpin
      [] i = 12 -> ProgMemory
      [] i = 13 -> ProgNoReturn
      [] i = 14 -> ProgVoidMain
      [] i = 15 -> ProgHello
      [] i = 16 -> ProgStrEq
      [] i = 17 -> ProgBoolMain
      [] i = 18 -> ProgShadow
      [] i = 22 -> ProgJumps
      [] i = 24 -> ProgArrayParam
      [] i = 25 -> ProgTick
      [] i = 26 -> ProgNeighbour(A, B)
      [] i = 27 -> ProgLoopLeak
      [] OTHER -> ProgCallArgs(A, B)

\* 19 to 21 number source texts of the Runner
ProgramIds == (1..18) \cup (22..27)

\* compile: analyze, then generate (driver_vm.py); ok = FALSE when either raised
Compile(program) ==
    Bind(analyze(program), LAMBDA ctx :
    IF ~ctx.ok THEN [ok |-> FALSE, code |-> <<>>, fns |-> <<>>, strings |-> <<>>,
                     layouts |-> <<>>]
    ELSE generate(program, ctx))


(***************************************************************************)
(* runtime/vm.py: QuinVM                                                   *)
(***************************************************************************)
\* A hand-assembled program given to QuinVM directly: it ends without RET.
RawCode == << Instruction("PUSH_INT", 5), Instruction("PRINT_INT", NoArg) >>
RawFunctions == << FunctionInfo("main", 0, 0, 0) >>

\* Hand-assembled programs around one indexed or indirect access of a frame
\* of three locals (locals[2] holds 7): the access has base 1 and index k, or
\* pointer k.
RawOps == <<"LOAD_LOCAL_IDX", "STORE_LOCAL_IDX", "LOAD_INDIRECT", "STORE_INDIRECT">>
RawIndices == (0 - 5)..3
RawAccess(op, k) ==
    << Instruction("PUSH_INT", 7), Instruction("STORE_LOCAL", 2) >> \o
    (CASE op = "LOAD_LOCAL_IDX" ->
            << Instruction("PUSH_INT", k), Instruction("LOAD_LOCAL_IDX", 1),
               Instruction("PRINT_INT", NoArg) >>
       [] op = "STORE_LOCAL_IDX" ->
            << Instruction("PUSH_INT", 9), Instruction("PUSH_INT", k),
               Instruction("STORE_LOCAL_IDX", 1) >>
       [] op = "LOAD_INDIRECT" ->
            << Instruction("PUSH_INT", k), Instruction("LOAD_INDIRECT", NoArg),
               Instruction("PRINT_INT", NoArg) >>
       [] OTHER ->
            << Instruction("PUSH_INT", k), Instruction("PUSH_INT", 9),
               Instruction("STORE_INDIRECT", NoArg) >>) \o
    << Instruction("PUSH_INT", 0), Instruction("RET", NoArg) >>
RawAccessFunctions == << FunctionInfo("main", 0, 3, 0) >>

\* Hand-assembled programs around one MEMCPY_LOCALS of a frame of four locals
\* holding 1, 2, 3, 4.  The number n of a program encodes its three operands
\* dst, src and count, each from -1 to 4.
RawCopies == 0..215
CopyDst(n) == (n \div 36) - 1
CopySrc(n) == ((n \div 6) % 6) - 1
CopyCount(n) == (n % 6) - 1
RawCopy(n) ==
    << Instruction("PUSH_INT", 1), Instruction("STORE_LOCAL", 0),
       Instruction("PUSH_INT", 2), Instruction("STORE_LOCAL", 1),
       Instruction("PUSH_INT", 3), Instruction("STORE_LOCAL", 2),
       Instruction("PUSH_INT", 4), Instruction("STORE_LOCAL", 3),
       Instruction("PUSH_INT", CopyDst(n)), Instruction("PUSH_INT", CopySrc(n)),
       Instruction("PUSH_INT", CopyCount(n)), Instruction("MEMCPY_LOCALS", NoArg),
       Instruction("PUSH_INT", 0), Instruction("RET", NoArg) >>
RawCopyFunctions == << FunctionInfo("main", 0, 4, 0) >>

\* QuinVM.__init__
QuinVM(c, fns, strs) ==
    /\ code = c
    /\ functions = fns
    /\ strings = strs
    /\ stop_requested = FALSE
    /\ stack = <<>>
    /\ call_stack = <<>>
    /\ pc = 0
    /\ locals = <<>>
    /\ out = <<>>
    /\ status = "ready"
    /\ exit_code = <<>>
    /\ error = ""
    /\ call_hist = <<>>

\* A source program is compiled and handed to a new QuinVM (driver_vm.py) ...
InitCompiled ==
    /\ prog \in ProgramIds
    /\ argA \in Operands
    /\ argB \in Operands
    /\ prog \notin Parametric => (argA = 0 /\ argB = 0)
    /\ Bind(Compile(Program(prog, argA, argB)),
            LAMBDA c : c.ok /\ QuinVM(c.code, c.fns, c.strings))

\* ... or the VM is built on bytecode written by hand (prog = 0).
InitRaw ==
    /\ prog = 0
    /\ \/ /\ argA = 0
          /\ argB = 0
          /\ QuinVM(RawCode, RawFunctions, <<>>)
       \/ /\ argA \in 1..Len(RawOps)
          /\ argB \in RawIndices
          /\ QuinVM(RawAccess(RawOps[argA], argB), RawAccessFunctions, <<>>)
       \/ /\ argA = Len(RawOps) + 1
          /\ argB \in RawCopies
          /\ QuinVM(RawCopy(argB), RawCopyFunctions, <<>>)

Init ==
    /\ InitCompiled \/ InitRaw
    /\ lexer = NoObject
    /\ parser = NoObject
    /\ runner = NoObject

progvars == <<prog, argA, argB, code, functions, strings, hostvars>>

\* self.func_index: {f.name: i}; a later function of the same name wins
in_func_index(name) == \E i \in 1..Len(functions) : functions[i].name = name
func_index(name) ==
    (CHOOSE i \in 1..Len(functions) :
        /\ functions[i].name = name
        /\ \A j \in (i + 1)..Len(functions) : functions[j].name # name) - 1

\* [0] * n
Zeros(n) == [i \in 1..n |-> 0]

\* x & 0xFFFF
mask16(x) == x % Mod16

\* str(int(v)): the decimal digits, with a minus sign below zero
Digit(d) == <<"0", "1", "2", "3", "4", "5", "6", "7", "8", "9">>[d + 1]
RECURSIVE digits(_)
digits(n) == IF n < 10 THEN Digit(n) ELSE digits(n \div 10) \o Digit(n % 10)
int_str(v) == IF v < 0 THEN "-" \o digits(-v) ELSE digits(v)

\* self.strings.get(sid, "")
string_get(sid) == IF sid >= 0 /\ sid < Len(strings) THEN strings[sid + 1] ELSE ""

\* An addition that keeps the carry (the mask left out, as in DIV): the variant
\* C7's property must reject.
AddUnmasked(a, b) == a + b

add_result(a, b) == mask16(a + b)
sub_result(a, b) == mask16(a - b)
\* (a * b) & 0xFFFF.  Python integers are unbounded; the product is taken here
\* byte by byte of a so that no intermediate value leaves 32 bits.
mul_result(a, b) ==
    LET x == mask16(a)
        y == mask16(b)
    IN mask16((x % 256) * y + ((((x \div 256) * y) % 256) * 256))
neg_result(a) == mask16(-a)
\* int(a) // int(b): Python's floor division
div_result(a, b) == a \div b
Truth(c) == IF c THEN 1 ELSE 0
cmp_result(op, a, b) ==
    CASE op = "CMP_EQ" -> Truth(a = b)
      [] op = "CMP_NE" -> Truth(a # b)
      [] op = "CMP_LT" -> Truth(a < b)
      [] op = "CMP_LE" -> Truth(a <= b)
      [] op = "CMP_GT" -> Truth(a > b)
      [] OTHER -> Truth(a >= b)
CmpOps == {"CMP_EQ", "CMP_NE", "CMP_LT", "CMP_LE", "CMP_GT", "CMP_GE"}

\* The stack without its k topmost values, and its k-th value from the top
Drop(k) == SubSeq(stack, 1, Len(stack) - k)
Top(k) == stack[Len(stack) + 1 - k]

\* host thread: QuinVM.request_stop
request_stop ==
    /\ ~stop_requested
    /\ stop_requested' = TRUE
    /\ UNCHANGED <<progvars, stack, call_stack, pc, locals, out, status, exit_code,
                   error, call_hist>>

run_main ==
    /\ status = "ready"
    /\ IF ~in_func_index("main")
       THEN /\ status' = "error"
            /\ error' = "No 'main' function defined"
            /\ UNCHANGED <<locals, pc>>
       ELSE LET fn == functions[func_index("main") + 1] IN
            /\ locals' = Zeros(fn.num_locals)
            /\ pc' = fn.entry_pc
            /\ status' = "running"
            /\ UNCHANGED error
    /\ UNCHANGED <<progvars, stop_requested, stack, call_stack, out, exit_code, call_hist>>

\* One pass of the loop of _run finds the stop flag set: ExecutionStopped
Stopped ==
    /\ status = "running"
    /\ pc < Len(code)
    /\ stop_requested
    /\ status' = "stopped"
    /\ error' = "Execution stopped by user"
    /\ UNCHANGED <<progvars, stop_requested, stack, call_stack, pc, locals, out,
                   exit_code, call_hist>>

\* while self.pc < len(code) fails: fell off the end, return 0
FellOffEnd ==
    /\ status = "running"
    /\ pc >= Len(code)
    /\ status' = "finished"
    /\ exit_code' = <<0>>
    /\ UNCHANGED <<progvars, stop_requested, stack, call_stack, pc, locals, out,
                   error, call_hist>>

\* A dispatch that does not look at the stop flag (the flag check left out of
\* the loop): the variant C1's property must reject.
DispatchUnchecked(op) ==
    /\ status = "running"
    /\ pc < Len(code)
    /\ code[pc + 1].op = op

\* instr = code[self.pc] is an op instruction and the stop flag is clear
Dispatch(op) ==
    /\ status = "running"
    /\ pc < Len(code)
    /\ ~stop_requested
    /\ code[pc + 1].op = op

arg == code[pc + 1].arg

\* The instruction completes: the new stack, pc, locals and output
Done(stk, npc, lcl, o) ==
    /\ stack' = stk
    /\ pc' = npc
    /\ locals' = lcl
    /\ out' = o
    /\ UNCHANGED <<progvars, stop_requested, call_stack, status, exit_code, error,
                   call_hist>>

\* The instruction raises after self.pc += 1, leaving stack stk and locals lcl
Raise(msg, stk, lcl) ==
    /\ status' = "error"
    /\ error' = msg
    /\ stack' = stk
    /\ pc' = pc + 1
    /\ locals' = lcl
    /\ UNCHANGED <<progvars, stop_requested, call_stack, out, exit_code, call_hist>>

\* list.pop() on an empty list, or an index outside a list
IndexError == "IndexError"

PUSH_INT ==
    /\ Dispatch("PUSH_INT")
    /\ Done(Append(stack, arg), pc + 1, locals, out)

LOAD_LOCAL ==
    /\ Dispatch("LOAD_LOCAL")
    /\ IF arg >= Len(locals) THEN Raise(IndexError, stack, locals)
       ELSE Done(Append(stack, locals[arg + 1]), pc + 1, locals, out)

STORE_LOCAL ==
    /\ Dispatch("STORE_LOCAL")
    /\ IF Len(stack) < 1 THEN Raise(IndexError, <<>>, locals)
       ELSE IF arg >= Len(locals) THEN Raise(IndexError, Drop(1), locals)
       ELSE Done(Drop(1), pc + 1, [locals EXCEPT ![arg + 1] = Top(1)], out)

ADD ==
    /\ Dispatch("ADD")
    /\ IF Len(stack) < 2 THEN Raise(IndexError, <<>>, locals)
       ELSE Done(Append(Drop(2), add_result(Top(2), Top(1))), pc + 1, locals, out)

SUB ==
    /\ Dispatch("SUB")
    /\ IF Len(stack) < 2 THEN Raise(IndexError, <<>>, locals)
       ELSE Done(Append(Drop(2), sub_result(Top(2), Top(1))), pc + 1, locals, out)

MUL ==
    /\ Dispatch("MUL")
    /\ IF Len(stack) < 2 THEN Raise(IndexError, <<>>, locals)
       ELSE Done(Append(Drop(2), mul_result(Top(2), Top(1))), pc + 1, locals, out)

\* A DIV that yields 0 for a zero divisor instead of raising: the variant C9's
\* property must reject.
DivZeroYieldsZero ==
    /\ Dispatch("DIV")
    /\ IF Len(stack) < 2 THEN Raise(IndexError, <<>>, locals)
       ELSE Done(Append(Drop(2), IF Top(1) = 0 THEN 0 ELSE div_result(Top(2), Top(1))),
                 pc + 1, locals, out)

DIV ==
    /\ Dispatch("DIV")
    /\ IF Len(stack) < 2 THEN Raise(IndexError, <<>>, locals)
       ELSE IF Top(1) = 0 THEN Raise("Division by zero", Drop(2), locals)
       ELSE Done(Append(Drop(2), div_result(Top(2), Top(1))), pc + 1, locals, out)

NEG ==
    /\ Dispatch("NEG")
    /\ IF Len(stack) < 1 THEN Raise(IndexError, <<>>, locals)
       ELSE Done(Append(Drop(1), neg_result(Top(1))), pc + 1, locals, out)

\* CMP_EQ, CMP_NE, CMP_LT, CMP_LE, CMP_GT, CMP_GE
CMP ==
    /\ \E op \in CmpOps : Dispatch(op)
    /\ IF Len(stack) < 2 THEN Raise(IndexError, <<>>, locals)
       ELSE Done(Append(Drop(2), cmp_result(code[pc + 1].op, Top(2), Top(1))),
                 pc + 1, locals, out)

NOT ==
    /\ Dispatch("NOT")
    /\ IF Len(stack) < 1 THEN Raise(IndexError, <<>>, locals)
       ELSE Done(Append(Drop(1), IF Top(1) # 0 THEN 0 ELSE 1), pc + 1, locals, out)

JMP ==
    /\ Dispatch("JMP")
    /\ Done(stack, arg, locals, out)

JZ ==
    /\ Dispatch("JZ")
    /\ IF Len(stack) < 1 THEN Raise(IndexError, <<>>, locals)
       ELSE Done(Drop(1), IF Top(1) = 0 THEN arg ELSE pc + 1, locals, out)

JNZ ==
    /\ Dispatch("JNZ")
    /\ IF Len(stack) < 1 THEN Raise(IndexError, <<>>, locals)
       ELSE Done(Drop(1), IF Top(1) # 0 THEN arg ELSE pc + 1, locals, out)

\* The callee's frame: zeros, with args[i] & 0xFFFF in slot i while i < len(locals)
callee_locals(fn, args) ==
    [i \in 1..fn.num_locals |-> IF i <= Len(args) THEN mask16(args[i]) ELSE 0]

CALL ==
    /\ Dispatch("CALL")
    /\ IF arg >= Len(functions) THEN Raise(IndexError, stack, locals)
       ELSE LET fn == functions[arg + 1]
                np == fn.num_params
            IN
            IF Len(stack) < np
            THEN Raise("Stack underflow when popping call arguments", <<>>, locals)
            ELSE /\ stack' = Drop(np)
                 /\ call_stack' = Append(call_stack, <<pc + 1, locals>>)
                 /\ locals' = callee_locals(fn, SubSeq(stack, Len(stack) - np + 1, Len(stack)))
                 /\ pc' = fn.entry_pc
                 /\ call_hist' = Append(call_hist, [fn_id |-> arg, below |-> Drop(np)])
                 /\ UNCHANGED <<progvars, stop_requested, out, status, exit_code, error>>

RET ==
    /\ Dispatch("RET")
    /\ LET ret_val == IF Len(stack) > 0 THEN Top(1) ELSE 0
           rest == IF Len(stack) > 0 THEN Drop(1) ELSE stack
       IN
       IF Len(call_stack) = 0
       THEN /\ status' = "finished"
            /\ exit_code' = <<ret_val>>
            /\ stack' = rest
            /\ pc' = pc + 1
            /\ UNCHANGED <<progvars, stop_requested, call_stack, locals, out, error,
                           call_hist>>
       ELSE LET frame == call_stack[Len(call_stack)] IN
            /\ call_stack' = SubSeq(call_stack, 1, Len(call_stack) - 1)
            /\ locals' = frame[2]
            /\ stack' = Append(rest, ret_val)
            /\ pc' = frame[1]
            /\ call_hist' = SubSeq(call_hist, 1, Len(call_hist) - 1)
            /\ UNCHANGED <<progvars, stop_requested, out, status, exit_code, error>>

\* self.stack.append(self.locals[i]): a Python list counts a negative index
\* from its end, and raises IndexError outside -len..len-1
list_index(lcl, i, stk) ==
    IF i >= Len(lcl) \/ i < 0 - Len(lcl) THEN Raise(IndexError, stk, lcl)
    ELSE IF i < 0 THEN Done(Append(stk, lcl[Len(lcl) + i + 1]), pc + 1, lcl, out)
    ELSE Done(Append(stk, lcl[i + 1]), pc + 1, lcl, out)

LOAD_LOCAL_IDX ==
    /\ Dispatch("LOAD_LOCAL_IDX")
    /\ IF Len(stack) < 1 THEN Raise(IndexError, <<>>, locals)
       ELSE list_index(locals, arg + Top(1), Drop(1))

STORE_LOCAL_IDX ==
    /\ Dispatch("STORE_LOCAL_IDX")
    /\ IF Len(stack) < 2 THEN Raise(IndexError, <<>>, locals)
       ELSE LET idx == Top(1)
                val == Top(2)
            IN
            IF arg + idx < 0 \/ arg + idx >= Len(locals)
            THEN Raise("STORE_LOCAL_IDX out of range", Drop(2), locals)
            ELSE Done(Drop(2), pc + 1, [locals EXCEPT ![arg + idx + 1] = val], out)

LOAD_INDIRECT ==
    /\ Dispatch("LOAD_INDIRECT")
    /\ IF Len(stack) < 1 THEN Raise(IndexError, <<>>, locals)
       ELSE LET p == Top(1) IN
            IF p < 0 \/ p >= Len(locals)
            THEN Raise("LOAD_INDIRECT out of range", Drop(1), locals)
            ELSE Done(Append(Drop(1), locals[p + 1]), pc + 1, locals, out)

STORE_INDIRECT ==
    /\ Dispatch("STORE_INDIRECT")
    /\ IF Len(stack) < 2 THEN Raise(IndexError, <<>>, locals)
       ELSE LET v == Top(1)
                p == Top(2)
            IN
            IF p < 0 \/ p >= Len(locals)
            THEN Raise("STORE_INDIRECT out of range", Drop(2), locals)
            ELSE Done(Drop(2), pc + 1, [locals EXCEPT ![p + 1] = v], out)

\* A copy that reads every source slot before it writes any
RECURSIVE memcpy_snapshot(_, _, _, _, _)
memcpy_snapshot(lcl, src, dst, i, count) ==
    IF i >= count THEN [ok |-> TRUE, locals |-> lcl]
    ELSE LET si == src + (count - 1 - i)
             di == dst + (count - 1 - i)
         IN
         IF si < 0 \/ si >= Len(lcl) \/ di < 0 \/ di >= Len(lcl)
         THEN [ok |-> FALSE, locals |-> lcl]
         ELSE memcpy_snapshot([lcl EXCEPT ![di + 1] = lcl[si + 1]], src, dst, i + 1, count)

\* for i in range(count): copy one slot, or stop at the first slot out of range
RECURSIVE memcpy_loop(_, _, _, _, _)
memcpy_loop(lcl, src, dst, i, count) ==
    IF i >= count THEN [ok |-> TRUE, locals |-> lcl]
    ELSE LET si == src + i
             di == dst + i
         IN
         IF si < 0 \/ si >= Len(lcl) \/ di < 0 \/ di >= Len(lcl)
         THEN [ok |-> FALSE, locals |-> lcl]
         ELSE memcpy_loop([lcl EXCEPT ![di + 1] = lcl[si + 1]], src, dst, i + 1, count)

MEMCPY_LOCALS ==
    /\ Dispatch("MEMCPY_LOCALS")
    /\ IF Len(stack) < 3 THEN Raise(IndexError, <<>>, locals)
       ELSE LET count == Top(1)
                src == Top(2)
                dst == Top(3)
                r == memcpy_loop(locals, src, dst, 0, count)
            IN
            IF count < 0 THEN Raise("MEMCPY_LOCALS negative count", Drop(3), locals)
            ELSE IF ~r.ok THEN Raise("MEMCPY_LOCALS out of range", Drop(3), r.locals)
            ELSE Done(Drop(3), pc + 1, r.locals, out)

RECURSIVE memset_loop(_, _, _, _, _)
memset_loop(lcl, dst, value, i, count) ==
    IF i >= count THEN [ok |-> TRUE, locals |-> lcl]
    ELSE LET di == dst + i IN
         IF di < 0 \/ di >= Len(lcl)
         THEN [ok |-> FALSE, locals |-> lcl]
         ELSE memset_loop([lcl EXCEPT ![di + 1] = value], dst, value, i + 1, count)

MEMSET_LOCALS ==
    /\ Dispatch("MEMSET_LOCALS")
    /\ IF Len(stack) < 3 THEN Raise(IndexError, <<>>, locals)
       ELSE LET count == Top(1)
                value == Top(2)
                dst == Top(3)
                r == memset_loop(locals, dst, value, 0, count)
            IN
            IF count < 0 THEN Raise("MEMSET_LOCALS negative count", Drop(3), locals)
            ELSE IF ~r.ok THEN Raise("MEMSET_LOCALS out of range", Drop(3), r.locals)
            ELSE Done(Drop(3), pc + 1, r.locals, out)

PRINT_INT ==
    /\ Dispatch("PRINT_INT")
    /\ IF Len(stack) < 1 THEN Raise(IndexError, <<>>, locals)
       ELSE Done(Drop(1), pc + 1, locals, Append(out, int_str(Top(1))))

PRINT_STR ==
    /\ Dispatch("PRINT_STR")
    /\ IF Len(stack) < 1 THEN Raise(IndexError, <<>>, locals)
       ELSE Done(Drop(1), pc + 1, locals, Append(out, string_get(Top(1))))

PRINTLN_INT ==
    /\ Dispatch("PRINTLN_INT")
    /\ IF Len(stack) < 1 THEN Raise(IndexError, <<>>, locals)
       ELSE Done(Drop(1), pc + 1, locals, Append(out, int_str(Top(1)) \o "\n"))

PRINTLN_STR ==
    /\ Dispatch("PRINTLN_STR")
    /\ IF Len(stack) < 1 THEN Raise(IndexError, <<>>, locals)
       ELSE Done(Drop(1), pc + 1, locals, Append(out, string_get(Top(1)) \o "\n"))

\* One instruction dispatch of _run
Step ==
    \/ PUSH_INT \/ LOAD_LOCAL \/ STORE_LOCAL
    \/ ADD \/ SUB \/ MUL \/ DIV \/ NEG \/ CMP \/ NOT
    \/ JMP \/ JZ \/ JNZ \/ CALL \/ RET
    \/ LOAD_LOCAL_IDX \/ STORE_LOCAL_IDX \/ LOAD_INDIRECT \/ STORE_INDIRECT
    \/ MEMCPY_LOCALS \/ MEMSET_LOCALS
    \/ PRINT_INT \/ PRINT_STR \/ PRINTLN_INT \/ PRINTLN_STR

Next == run_main \/ Step \/ Stopped \/ FellOffEnd \/ request_stop

Spec == Init /\ [][Next]_vars


(***************************************************************************)
(* compiler/lexer.py: Lexer.  A source text is a sequence of characters;   *)
(* tokenize scans one token (or one skipped stretch) per step.             *)
(***************************************************************************)
\* Source texts hold at most MaxLen characters.
MaxLen == 3

\* One character or more of every class _scan_token tells apart.  "^2" is
\* the superscript two: str.isdigit() holds for it and int() rejects it.
Chars == {" ", "\n", "(", ";", "=", "&", "|", "/", "\"", "0", "7", "^2",
          "x", "f", "i", "_", "#"}

Sources == UNION {[1..n -> Chars] : n \in 0..MaxLen}

\* What _peek returns at the end of the text
NUL == "\\0"

\* str.isdigit, str.isalpha, str.isalnum on the characters of Chars
isdigit(ch) == ch \in {"0", "7", "^2"}
isalpha(ch) == ch \in {"x", "f", "i"}
isalnum(ch) == isalpha(ch) \/ isdigit(ch)

\* int(text) and int(text, 16) accept the ASCII digits (and a to f); ok is
\* FALSE where they raise ValueError.
digit_value(ch) ==
    CASE ch = "0" -> 0
      [] ch = "7" -> 7
      [] ch = "f" -> 15
      [] OTHER -> 0 - 1

RECURSIVE int_of(_, _)
int_of(text, base) ==
    IF Len(text) = 0 THEN [ok |-> TRUE, value |-> 0]
    ELSE LET d == digit_value(text[Len(text)])
             r == int_of(SubSeq(text, 1, Len(text) - 1), base)
         IN IF d < 0 \/ d >= base \/ ~r.ok THEN [ok |-> FALSE, value |-> 0]
            ELSE [ok |-> TRUE, value |-> r.value * base + d]

\* int(text): the empty text is rejected as well.
int(text, base) ==
    IF Len(text) = 0 THEN [ok |-> FALSE, value |-> 0] ELSE int_of(text, base)

\* tokens.py: Token, and the literal payloads
NoLiteral == [kind |-> "None"]
IntLiteral(v) == [kind |-> "int", value |-> v]
StrLiteral(chars) == [kind |-> "str", value |-> chars]
Token(type, lexeme, line, col, literal) ==
    [type |-> type, lexeme |-> lexeme, line |-> line, col |-> col, literal |-> literal]

\* tokens.py: KEYWORDS.get(text, TokenType.IDENTIFIER)
keyword_or_identifier(text) ==
    CASE text = <<"i", "f">> -> "IF"
      [] OTHER -> "IDENTIFIER"

\* The one-character tokens of Chars
SingleChar == ("(" :> "LEFT_PAREN") @@ (";" :> "SEMICOLON")

\* Lexer.__init__
Lexer(src) ==
    [state |-> "scanning", source |-> src, tokens |-> <<>>, start |-> 0,
     current |-> 0, line |-> 1, col |-> 1]

is_at_end(lx) == lx.current >= Len(lx.source)
peek(lx) == IF is_at_end(lx) THEN NUL ELSE lx.source[lx.current + 1]
advance(lx) == [lx EXCEPT !.current = @ + 1, !.col = @ + 1]
\* _match: TRUE when the next character is the expected one (it is consumed)
match(lx, expected) == ~is_at_end(lx) /\ lx.source[lx.current + 1] = expected
lexeme(lx) == SubSeq(lx.source, lx.start + 1, lx.current)
add_token(lx, type, literal) ==
    [lx EXCEPT !.tokens = Append(@, Token(type, lexeme(lx), lx.line,
                                          lx.col - (lx.current - lx.start), literal))]

\* `//`: while self._peek() != '\n' and not self._is_at_end(): self._advance()
RECURSIVE skip_comment(_)
skip_comment(lx) ==
    IF peek(lx) # "\n" /\ ~is_at_end(lx) THEN skip_comment(advance(lx)) ELSE lx

\* _string: the loop up to the closing quote, then the token
RECURSIVE string_chars(_)
string_chars(lx) ==
    IF peek(lx) # "\"" /\ ~is_at_end(lx)
    THEN LET ch == peek(lx)
             a == advance(lx)
         IN string_chars(IF ch = "\n" THEN [a EXCEPT !.line = @ + 1, !.col = 1] ELSE a)
    ELSE lx

lex_string(lx) ==
    LET e == string_chars(lx) IN
    IF is_at_end(e) THEN add_token(e, "STRING", StrLiteral(<<>>))
    ELSE add_token(advance(e), "STRING",
                   StrLiteral(SubSeq(e.source, lx.current + 1, e.current)))

\* _number: the two scanning loops
RECURSIVE hex_digits(_)
hex_digits(lx) ==
    IF isdigit(peek(lx)) \/ peek(lx) = "f" THEN hex_digits(advance(lx)) ELSE lx

RECURSIVE dec_digits(_)
dec_digits(lx) ==
    IF isdigit(peek(lx)) THEN dec_digits(advance(lx)) ELSE lx

\* A ValueError leaves _number, _scan_token and tokenize.
raised(lx) == [lx EXCEPT !.state = "raised"]

lex_number(lx) ==
    IF lx.source[lx.start + 1] = "0" /\ peek(lx) = "x"
    THEN LET e == hex_digits(advance(lx))
             text == lexeme(e)
             value_text == IF Len(text) > 2 THEN SubSeq(text, 3, Len(text)) ELSE <<"0">>
             value == int(value_text, 16)
         IN IF value.ok THEN add_token(e, "NUMBER", IntLiteral(value.value))
            ELSE raised(e)
    ELSE LET e == dec_digits(lx)
             value == int(lexeme(e), 10)
         IN IF value.ok THEN add_token(e, "NUMBER", IntLiteral(value.value))
            ELSE raised(e)

RECURSIVE ident_chars(_)
ident_chars(lx) ==
    IF isalnum(peek(lx)) \/ peek(lx) = "_" THEN ident_chars(advance(lx)) ELSE lx

lex_identifier(lx) ==
    LET e == ident_chars(lx) IN add_token(e, keyword_or_identifier(lexeme(e)), NoLiteral)

\* tokenize's loop: not at the end, self.start = self.current, and
\* _scan_token's c = self._advance()
Scanning == lexer.state = "scanning" /\ ~is_at_end(lexer)
Begun == advance([lexer EXCEPT !.start = lexer.current])
c == lexer.source[lexer.current + 1]

vmvars == <<prog, argA, argB, code, functions, strings, stop_requested, stack,
            call_stack, pc, locals, out, status, exit_code, error, call_hist>>

Scanned(lx) ==
    /\ lexer' = lx
    /\ UNCHANGED <<vmvars, parser, runner>>

scan_blank == Scanning /\ c = " " /\ Scanned(Begun)

scan_newline ==
    Scanning /\ c = "\n" /\ Scanned([Begun EXCEPT !.line = @ + 1, !.col = 1])

scan_single ==
    Scanning /\ c \in DOMAIN SingleChar /\ Scanned(add_token(Begun, SingleChar[c], NoLiteral))

\* A lone `|` adds no token: it falls through every later test.
scan_or ==
    /\ Scanning /\ c = "|"
    /\ Scanned(IF match(Begun, "|") THEN add_token(advance(Begun), "OR_OR", NoLiteral)
               ELSE Begun)

scan_amp ==
    /\ Scanning /\ c = "&"
    /\ Scanned(IF match(Begun, "&") THEN add_token(advance(Begun), "AND_AND", NoLiteral)
               ELSE add_token(Begun, "AMP", NoLiteral))

scan_slash ==
    /\ Scanning /\ c = "/"
    /\ Scanned(IF match(Begun, "/") THEN skip_comment(advance(Begun))
               ELSE add_token(Begun, "SLASH", NoLiteral))

scan_equal ==
    /\ Scanning /\ c = "="
    /\ Scanned(IF match(Begun, "=") THEN add_token(advance(Begun), "EQUAL_EQUAL", NoLiteral)
               ELSE add_token(Begun, "EQUAL", NoLiteral))

scan_string == Scanning /\ c = "\"" /\ Scanned(lex_string(Begun))

scan_number == Scanning /\ isdigit(c) /\ Scanned(lex_number(Begun))

scan_identifier ==
    Scanning /\ (isalpha(c) \/ c = "_") /\ Scanned(lex_identifier(Begun))

\* Unknown character: skipped
scan_unknown == Scanning /\ c = "#" /\ Scanned(Begun)

scan_token ==
    \/ scan_blank \/ scan_newline \/ scan_single \/ scan_or \/ scan_amp
    \/ scan_slash \/ scan_equal \/ scan_string \/ scan_number
    \/ scan_identifier \/ scan_unknown

\* tokenize: the loop has ended; the EOF token is appended and the list returned
tokenize_return ==
    /\ lexer.state = "scanning"
    /\ is_at_end(lexer)
    /\ Scanned([lexer EXCEPT !.state = "returned",
                             !.tokens = Append(@, Token("EOF", <<>>, lexer.line,
                                                        lexer.col, NoLiteral))])

\* No QuinVM has been built.
NoVM ==
    /\ prog = 0 /\ argA = 0 /\ argB = 0
    /\ QuinVM(<<>>, <<>>, <<>>)

LexInit ==
    /\ lexer \in {Lexer(src) : src \in Sources}
    /\ parser = NoObject
    /\ runner = NoObject
    /\ NoVM

LexNext == scan_token \/ tokenize_return

LexSpec == LexInit /\ [][LexNext]_vars

(***************************************************************************)
(* compiler/parser.py: Parser.  The grammar functions without a block in   *)
(* them are operators on the token list and a position; parse, _block and  *)
(* _vm_asm_block take one step per pass of their loops, the blocks that    *)
(* are open being kept on a stack as the recursion of the source keeps     *)
(* them.  The AST built is left out: what is modelled is the tokens        *)
(* consumed, the ParseError raised and the Program returned.               *)
(***************************************************************************)
\* The next token's type, _is_at_end, _check
peek_type(toks, cur) == toks[cur + 1].type
at_end(toks, cur) == peek_type(toks, cur) = "EOF"
check(toks, cur, ty) == ~at_end(toks, cur) /\ peek_type(toks, cur) = ty

\* What a grammar function comes to: it returned with the position at cur
\* (ident: the expression is an Identifier node), or it raised ParseError
\* with the token at cur as the unexpected one.
Parsed(cur) == [ok |-> TRUE, cur |-> cur, msg |-> "", ident |-> FALSE]
ParsedIdentifier(cur) == [ok |-> TRUE, cur |-> cur, msg |-> "", ident |-> TRUE]
ParseError(msg, cur) == [ok |-> FALSE, cur |-> cur, msg |-> msg, ident |-> FALSE]

\* The next grammar function runs where the last one returned; an error
\* passes through.
Then(r, K(_)) == IF r.ok THEN K(r.cur) ELSE r

\* _consume
consume(toks, cur, ty, msg) ==
    IF check(toks, cur, ty) THEN Parsed(cur + 1) ELSE ParseError(msg, cur)

\* _type_name
type_name(toks, cur) ==
    IF check(toks, cur, "INT")
    THEN IF check(toks, cur + 1, "LEFT_BRACKET")
         THEN Then(consume(toks, cur + 2, "NUMBER", "Expected array size after '['"),
              LAMBDA c1 : consume(toks, c1, "RIGHT_BRACKET", "Expected ']' after array size"))
         ELSE Parsed(cur + 1)
    ELSE IF \E ty \in {"STR", "VOID", "PTR"} : check(toks, cur, ty)
         THEN Parsed(cur + 1)
         ELSE consume(toks, cur, "IDENTIFIER", "Expected type name")

RECURSIVE expression(_, _)
RECURSIVE unary(_, _)
RECURSIVE call_postfix(_, _, _)
RECURSIVE call_args(_, _)
RECURSIVE binary_rest(_, _, _, _)
RECURSIVE binary_level(_, _, _)

\* _primary
primary(toks, cur) ==
    IF \E ty \in {"FALSE", "TRUE", "NUMBER", "STRING"} : check(toks, cur, ty)
    THEN Parsed(cur + 1)
    ELSE IF check(toks, cur, "IDENTIFIER") THEN ParsedIdentifier(cur + 1)
    ELSE IF check(toks, cur, "LEFT_PAREN")
    THEN Bind(expression(toks, cur + 1), LAMBDA e :
         IF ~e.ok THEN e
         ELSE Bind(consume(toks, e.cur, "RIGHT_PAREN", "Expected ')' after expression"),
                   LAMBDA r : IF r.ok THEN [r EXCEPT !.ident = e.ident] ELSE r))
    ELSE ParseError("Expected expression", cur)

\* _call: the arguments of a call, up to the token behind the last one
call_args(toks, cur) ==
    Then(expression(toks, cur), LAMBDA c1 :
         IF check(toks, c1, "COMMA") THEN call_args(toks, c1 + 1) ELSE Parsed(c1))

\* _call: the loop over the postfix calls and indexings
call_postfix(toks, cur, ident) ==
    IF ident /\ check(toks, cur, "LEFT_PAREN")
    THEN Then(IF check(toks, cur + 1, "RIGHT_PAREN") THEN Parsed(cur + 1)
              ELSE call_args(toks, cur + 1),
         LAMBDA c1 :
         Then(consume(toks, c1, "RIGHT_PAREN", "Expected ')' after arguments"),
         LAMBDA c2 : call_postfix(toks, c2, FALSE)))
    ELSE IF check(toks, cur, "LEFT_BRACKET")
    THEN Then(expression(toks, cur + 1), LAMBDA c1 :
         Then(consume(toks, c1, "RIGHT_BRACKET", "Expected ']' after index expression"),
         LAMBDA c2 : call_postfix(toks, c2, FALSE)))
    ELSE IF ident THEN ParsedIdentifier(cur) ELSE Parsed(cur)

call(toks, cur) ==
    Bind(primary(toks, cur), LAMBDA p :
         IF p.ok THEN call_postfix(toks, p.cur, p.ident) ELSE p)

\* _unary
unary(toks, cur) ==
    IF \E ty \in {"AMP", "BANG", "MINUS"} : check(toks, cur, ty)
    THEN Then(unary(toks, cur + 1), LAMBDA c1 : Parsed(c1))
    ELSE call(toks, cur)

\* The binary levels, from _or (1) down to _factor (6), and their operators
LevelOps ==
    << {"OR_OR"}, {"AND_AND"}, {"EQUAL_EQUAL", "BANG_EQUAL"},
       {"GREATER", "GREATER_EQUAL", "LESS", "LESS_EQUAL"}, {"PLUS", "MINUS"},
       {"STAR", "SLASH"} >>

operand(toks, cur, level) ==
    IF level = Len(LevelOps) THEN unary(toks, cur) ELSE binary_level(toks, cur, level + 1)

\* while self._match(ops): right = operand()
binary_rest(toks, cur, level, ident) ==
    IF \E ty \in LevelOps[level] : check(toks, cur, ty)
    THEN Then(operand(toks, cur + 1, level),
              LAMBDA c1 : binary_rest(toks, c1, level, FALSE))
    ELSE IF ident THEN ParsedIdentifier(cur) ELSE Parsed(cur)

binary_level(toks, cur, level) ==
    Bind(operand(toks, cur, level), LAMBDA l :
         IF l.ok THEN binary_rest(toks, l.cur, level, l.ident) ELSE l)

\* _expression
expression(toks, cur) == binary_level(toks, cur, 1)

\* _var_decl, behind `let`
var_decl(toks, cur) ==
    Then(consume(toks, cur, "IDENTIFIER", "Expected variable name"), LAMBDA c1 :
    Then(IF check(toks, c1, "COLON") THEN type_name(toks, c1 + 1) ELSE Parsed(c1),
    LAMBDA c2 :
    Then(IF check(toks, c2, "EQUAL") THEN expression(toks, c2 + 1) ELSE Parsed(c2),
    LAMBDA c3 :
    consume(toks, c3, "SEMICOLON", "Expected ';' after variable declaration"))))

\* _statement: print and println
print_statement(toks, cur, word) ==
    Then(consume(toks, cur, "LEFT_PAREN",
                 IF word = "PRINT" THEN "Expected '(' after 'print'"
                 ELSE "Expected '(' after 'println'"), LAMBDA c1 :
    Then(expression(toks, c1), LAMBDA c2 :
    Then(consume(toks, c2, "RIGHT_PAREN",
                 IF word = "PRINT" THEN "Expected ')' after print expression"
                 ELSE "Expected ')' after println expression"), LAMBDA c3 :
    consume(toks, c3, "SEMICOLON",
            IF word = "PRINT" THEN "Expected ';' after print statement"
            ELSE "Expected ';' after println statement"))))

\* _statement: the forms that hold no block
simple_statement(toks, cur) ==
    IF check(toks, cur, "PRINT") THEN print_statement(toks, cur + 1, "PRINT")
    ELSE IF check(toks, cur, "PRINTLN") THEN print_statement(toks, cur + 1, "PRINTLN")
    ELSE IF check(toks, cur, "ASM")
    THEN Then(consume(toks, cur + 1, "STRING", "Expected string literal after 'asm'"),
         LAMBDA c1 : consume(toks, c1, "SEMICOLON", "Expected ';' after asm statement"))
    ELSE IF check(toks, cur, "RETURN")
    THEN Then(IF check(toks, cur + 1, "SEMICOLON") THEN Parsed(cur + 1)
              ELSE expression(toks, cur + 1),
         LAMBDA c1 : consume(toks, c1, "SEMICOLON", "Expected ';' after return value"))
    ELSE Then(expression(toks, cur), LAMBDA c1 :
         IF check(toks, c1, "EQUAL")
         THEN Then(expression(toks, c1 + 1), LAMBDA c2 :
                   consume(toks, c2, "SEMICOLON", "Expected ';' after assignment"))
         ELSE consume(toks, c1, "SEMICOLON", "Expected ';' after expression"))

\* _declaration
declaration(toks, cur) ==
    IF check(toks, cur, "LET") THEN var_decl(toks, cur + 1)
    ELSE simple_statement(toks, cur)

\* _block's first line
block_open(toks, cur) == consume(toks, cur, "LEFT_BRACE", "Expected '{' to start block")

\* _statement: `if` and `while` up to the `{` of the block
condition_block(toks, cur, word) ==
    Then(consume(toks, cur, "LEFT_PAREN",
                 IF word = "IF" THEN "Expected '(' after 'if'"
                 ELSE "Expected '(' after 'while'"), LAMBDA c1 :
    Then(expression(toks, c1), LAMBDA c2 :
    Then(consume(toks, c2, "RIGHT_PAREN", "Expected ')' after condition"), LAMBDA c3 :
    block_open(toks, c3))))

\* _function: the parameters, behind `(`
RECURSIVE params(_, _)
params(toks, cur) ==
    Then(consume(toks, cur, "IDENTIFIER", "Expected parameter name"), LAMBDA c1 :
    Then(consume(toks, c1, "COLON", "Expected ':' after parameter name"), LAMBDA c2 :
    Then(type_name(toks, c2), LAMBDA c3 :
    IF check(toks, c3, "COMMA") THEN params(toks, c3 + 1) ELSE Parsed(c3))))

\* _function up to the `{` of the body
function_head(toks, cur) ==
    Then(consume(toks, cur, "FN", "Expected 'fn' at function start"), LAMBDA c1 :
    Then(consume(toks, c1, "IDENTIFIER", "Expected function name"), LAMBDA c2 :
    Then(consume(toks, c2, "LEFT_PAREN", "Expected '(' after function name"), LAMBDA c3 :
    Then(IF check(toks, c3, "RIGHT_PAREN") THEN Parsed(c3) ELSE params(toks, c3),
    LAMBDA c4 :
    Then(consume(toks, c4, "RIGHT_PAREN", "Expected ')' after parameters"), LAMBDA c5 :
    Then(IF check(toks, c5, "COLON") THEN type_name(toks, c5 + 1) ELSE Parsed(c5),
    LAMBDA c6 :
    block_open(toks, c6)))))))

\* The token lists handed to the Parser: token k stands at line 1, column k.
TokensOf(types) ==
    [k \in 1..Len(types) |-> Token(types[k], <<types[k]>>, 1, k, NoLiteral)]

\* `fn f() {`
FunctionHead == <<"FN", "IDENTIFIER", "LEFT_PAREN", "RIGHT_PAREN", "LEFT_BRACE">>

\* The pieces a token list is put together from
Pieces ==
    { <<"FN", "IDENTIFIER", "LEFT_PAREN", "IDENTIFIER", "COLON", "INT", "RIGHT_PAREN",
        "COLON", "VOID", "LEFT_BRACE">>,
      <<"IF", "LEFT_PAREN", "NUMBER", "RIGHT_PAREN", "LEFT_BRACE">>,
      <<"WHILE", "LEFT_PAREN", "IDENTIFIER", "LESS", "NUMBER", "RIGHT_PAREN", "LEFT_BRACE">>,
      <<"ELSE", "LEFT_BRACE">>,
      <<"VM_ASM", "LEFT_BRACE">>,
      <<"RIGHT_BRACE">>,
      <<"SEMICOLON">>,
      <<"IDENTIFIER", "LEFT_PAREN", "NUMBER", "RIGHT_PAREN">>,
      <<"LET", "IDENTIFIER", "COLON", "INT", "EQUAL", "MINUS", "NUMBER", "SEMICOLON">>,
      <<"RETURN">> }

\* A token list is the head of a function and at most MaxPieces pieces, or
\* one piece alone or none, and then EOF.
MaxPieces == 4

RECURSIVE Streams(_)
Streams(n) ==
    IF n = 0 THEN {<<>>}
    ELSE Streams(n - 1) \cup {s \o p : s \in Streams(n - 1), p \in Pieces}

TokenLists ==
    {TokensOf(FunctionHead \o s \o <<"EOF">>) : s \in Streams(MaxPieces)}
        \cup {TokensOf(s \o <<"EOF">>) : s \in Streams(1)}

\* _vm_asm_block's lists current_parts and lines grow without limit when the
\* loop does not end; the model follows a pass made at the end of the tokens
\* while both hold fewer than MaxParts entries.
MaxParts == 3

\* Parser.__init__; stack: the blocks that are open, innermost last
Parser(toks) ==
    [state |-> "parsing", tokens |-> toks, current |-> 0, stack |-> <<>>,
     funcs |-> 0, current_parts |-> 0, lines |-> 0, line |-> 0, col |-> 0,
     message |-> ""]

Parsing == parser.state = "parsing"
depth == Len(parser.stack)
InBlock == depth > 0 /\ parser.stack[depth] # "vm_asm"
InVmAsm == depth > 0 /\ parser.stack[depth] = "vm_asm"
push(frame) == Append(parser.stack, frame)
pop == SubSeq(parser.stack, 1, depth - 1)

ParserStep(p) ==
    /\ parser' = p
    /\ UNCHANGED <<vmvars, lexer, runner>>

\* A grammar function has returned (the stack becomes stk) or has raised: the
\* ParseError carries the line and column of the token it met.
Outcome(r, stk) ==
    IF r.ok THEN ParserStep([parser EXCEPT !.current = r.cur, !.stack = stk])
    ELSE ParserStep([parser EXCEPT !.state = "raised", !.current = r.cur,
                                   !.line = parser.tokens[r.cur + 1].line,
                                   !.col = parser.tokens[r.cur + 1].col,
                                   !.message = r.msg])

\* parse: while not self._is_at_end(): funcs.append(self._function())
parse_function ==
    /\ Parsing /\ depth = 0
    /\ ~at_end(parser.tokens, parser.current)
    /\ Outcome(function_head(parser.tokens, parser.current), push("function"))

\* parse: return A.Program(funcs)
parse_return ==
    /\ Parsing /\ depth = 0
    /\ at_end(parser.tokens, parser.current)
    /\ ParserStep([parser EXCEPT !.state = "returned"])

\* _block: while not self._check(RIGHT_BRACE): stmts.append(self._declaration()),
\* for a declaration that holds no block
block_declaration ==
    /\ Parsing /\ InBlock
    /\ ~check(parser.tokens, parser.current, "RIGHT_BRACE")
    /\ \A ty \in {"IF", "WHILE", "VM_ASM"} : ~check(parser.tokens, parser.current, ty)
    /\ Outcome(declaration(parser.tokens, parser.current), parser.stack)

\* ... for `if (cond) {`
block_if ==
    /\ Parsing /\ InBlock
    /\ check(parser.tokens, parser.current, "IF")
    /\ Outcome(condition_block(parser.tokens, parser.current + 1, "IF"), push("then"))

\* ... for `while (cond) {`
block_while ==
    /\ Parsing /\ InBlock
    /\ check(parser.tokens, parser.current, "WHILE")
    /\ Outcome(condition_block(parser.tokens, parser.current + 1, "WHILE"), push("while"))

\* ... for `vm_asm {`
block_vm_asm ==
    /\ Parsing /\ InBlock
    /\ check(parser.tokens, parser.current, "VM_ASM")
    /\ Outcome(consume(parser.tokens, parser.current + 1, "LEFT_BRACE",
                       "Expected '{' after 'vm_asm'"), push("vm_asm"))

\* _block: the `}` that ends the loop is consumed; a function is complete, or
\* a then block (an `else {` may follow), an else block or a while body
block_end ==
    /\ Parsing /\ InBlock
    /\ check(parser.tokens, parser.current, "RIGHT_BRACE")
    /\ LET after == parser.current + 1 IN
       CASE parser.stack[depth] = "function" ->
                ParserStep([parser EXCEPT !.current = after, !.stack = pop,
                                          !.funcs = @ + 1])
         [] parser.stack[depth] = "then" /\ check(parser.tokens, after, "ELSE") ->
                Outcome(block_open(parser.tokens, after + 1), Append(pop, "else"))
         [] OTHER ->
                ParserStep([parser EXCEPT !.current = after, !.stack = pop])

\* _vm_asm_block: while not self._check(RIGHT_BRACE): tok = self._advance();
\* current_parts.append(tok.lexeme), and at a `;` the parts become one more
\* line.  At the end of the tokens _check is false too, and _advance leaves
\* current as it is and returns the token before it.
vm_asm_advance ==
    /\ Parsing /\ InVmAsm
    /\ ~check(parser.tokens, parser.current, "RIGHT_BRACE")
    /\ LET ended == at_end(parser.tokens, parser.current)
           now == IF ended THEN parser.current ELSE parser.current + 1
           tok == parser.tokens[now]
       IN
       /\ ended => (parser.current_parts < MaxParts /\ parser.lines < MaxParts)
       /\ ParserStep([parser EXCEPT
              !.current = now,
              !.current_parts = IF tok.type = "SEMICOLON" THEN 0 ELSE @ + 1,
              !.lines = IF tok.type = "SEMICOLON" THEN @ + 1 ELSE @])

\* _vm_asm_block: the `}` is consumed and the statement returned
vm_asm_end ==
    /\ Parsing /\ InVmAsm
    /\ check(parser.tokens, parser.current, "RIGHT_BRACE")
    /\ ParserStep([parser EXCEPT !.current = @ + 1, !.stack = pop,
                                 !.current_parts = 0, !.lines = 0])

ParseInit ==
    /\ parser \in {Parser(toks) : toks \in TokenLists}
    /\ lexer = NoObject
    /\ runner = NoObject
    /\ NoVM

ParseNext ==
    \/ parse_function \/ parse_return
    \/ block_declaration \/ block_if \/ block_while \/ block_vm_asm \/ block_end
    \/ vm_asm_advance \/ vm_asm_end

ParseSpec == ParseInit /\ [][ParseNext]_vars

(***************************************************************************)
(* ide/runner.py: Runner.  The host thread calls run() and stop(); every   *)
(* run() that starts hands _run_impl to a new worker thread.  Threads      *)
(* interleave between any two accesses of the Runner's fields, so each     *)
(* action holds at most one such access together with the thread-local     *)
(* work around it.  The QuinVM variables describe the QuinVM built last;   *)
(* runner._vm is 0 for None, or the number of the run that built the       *)
(* QuinVM it refers to.  on_output and on_complete are the host's sinks:   *)
(* they record what they are given and return.                             *)
(***************************************************************************)
\* The run() calls that start a thread
MaxRuns == 2

RunState == {"IDLE", "RUNNING", "FINISHED", "ERROR", "STOPPED"}

\* None; an exit code that is not None is <<v>>, a message is its pieces
None == <<>>
RunResult(state, code_, message) ==
    [state |-> state, exit_code |-> code_, error_message |-> message]

\* fn main(): int { return 1 / 0; }
ProgDivZero == << Main(IntT, << Return(Binary(IntLit(1), "/", IntLit(0))) >>) >>
\* fn f(): int { return 1; }
ProgNoMain == << Function("f", <<>>, IntT, << Return(IntLit(1)) >>) >>
\* fn
SyntaxErrorTokens == TokensOf(<<"FN", "EOF">>)

\* The source texts the host runs: text |-> the number the program has in prog
RunSources == {11, 15, 19, 20, 21}
SourceProgram(src) ==
    CASE src = 11 -> ProgSpin
      [] src = 15 -> ProgHello
      [] src = 19 -> ProgDivZero
      [] OTHER -> ProgNoMain

\* An exception in flight
Exception(type, message, at) == [type |-> type, message |-> message, at |-> at]

\* _run_impl, lines 76-80: tokenize and parse, then analyze and generate.
\* raised is None, or the exception the front end raised.
compile_source(src) ==
    IF src = 21
    THEN Bind(function_head(SyntaxErrorTokens, 0), LAMBDA r :
         [raised |-> Exception("ParseError", r.msg,
                               <<SyntaxErrorTokens[r.cur + 1].line,
                                 SyntaxErrorTokens[r.cur + 1].col>>),
          code |-> <<>>, fns |-> <<>>, strings |-> <<>>])
    ELSE Bind(Compile(SourceProgram(src)), LAMBDA cg :
         [raised |-> IF cg.ok THEN None ELSE Exception("SemanticError", "", None),
          code |-> cg.code, fns |-> cg.fns, strings |-> cg.strings])

\* The clauses with `except Exception` listed before `except ExecutionStopped`
except_unordered(e) ==
    CASE e.type = "ParseError" ->
             RunResult("ERROR", None, <<"Syntax error at line ", ToString(e.at[1]),
                                        ", col ", ToString(e.at[2]), ": ",
                                        e.message>>)
      [] e.type = "SemanticError" ->
             RunResult("ERROR", None, <<"Semantic error: ", e.message>>)
      [] OTHER -> RunResult("ERROR", None, <<"Runtime error: ", e.message>>)

\* The except clauses of _run_impl, in the order the source lists them:
\* the RunResult each hands to on_complete (its state is also self._state)
except(e) ==
    CASE e.type = "ParseError" ->
             RunResult("ERROR", None, <<"Syntax error at line ", ToString(e.at[1]),
                                        ", col ", ToString(e.at[2]), ": ",
                                        e.message>>)
      [] e.type = "SemanticError" ->
             RunResult("ERROR", None, <<"Semantic error: ", e.message>>)
      [] e.type = "ExecutionStopped" -> RunResult("STOPPED", None, None)
      [] OTHER -> RunResult("ERROR", None, <<"Runtime error: ", e.message>>)

\* Runner.__init__
Runner ==
    [state |-> "runner", _state |-> "IDLE", _vm |-> 0,
     workers |-> <<>>,      \* per started run: source_code, where _run_impl is
     host |-> "idle",       \* where the host thread is inside stop()
     returned |-> None,     \* what the last run() returned
     stop_calls |-> {},     \* history: the runs stop() was called in, RUNNING
     raised |-> None,       \* the exception stop() raised into the host
     completed |-> <<>>]    \* the RunResults on_complete was given, in order

is_running == runner._state = "RUNNING"

Worker(src) == [source_code |-> src, at |-> "compile", result |-> None]
Runs == 1..Len(runner.workers)
Executing(w) == runner.workers[w].at # "done"

\* What a QuinVM was built on, and what it holds but its stop flag
loaded == <<prog, argA, argB, code, functions, strings>>
vmstate == <<stack, call_stack, pc, locals, out, status, exit_code, error, call_hist>>

\* The Runner's fields change; the QuinVM is not touched
RunnerStep(r) ==
    /\ runner' = r
    /\ UNCHANGED <<vmvars, lexer, parser>>

\* run(), is_running: return False
run_refused ==
    /\ runner.host = "idle"
    /\ is_running
    /\ RunnerStep([runner EXCEPT !.returned = FALSE])

\* run(), otherwise: RUNNING, a new thread on _run_impl, return True
run(src) ==
    /\ runner.host = "idle"
    /\ ~is_running
    /\ Len(runner.workers) < MaxRuns
    /\ RunnerStep([runner EXCEPT !._state = "RUNNING",
                                 !.workers = Append(@, Worker(src)),
                                 !.returned = TRUE])

\* stop(): `if self._vm and self.is_running`
stop_test ==
    /\ runner.host = "idle"
    /\ RunnerStep([runner EXCEPT
           !.host = IF runner._vm # 0 /\ is_running THEN "request_stop" ELSE "idle",
           !.stop_calls = IF is_running THEN @ \cup {Len(runner.workers)} ELSE @])

\* stop(): `self._vm.request_stop()`, self._vm being read again
stop_request ==
    /\ runner.host = "request_stop"
    /\ IF runner._vm = 0
       THEN /\ runner' = [runner EXCEPT !.host = "idle",
                              !.raised = Exception("AttributeError", "request_stop", None)]
            /\ UNCHANGED stop_requested
       ELSE /\ runner' = [runner EXCEPT !.host = "idle"]
            /\ stop_requested' = TRUE
    /\ UNCHANGED <<loaded, vmstate, lexer, parser>>

\* QuinVM.__init__, on the variables of the next state
NewQuinVM(bc, fns, strs) ==
    /\ code' = bc
    /\ functions' = fns
    /\ strings' = strs
    /\ stop_requested' = FALSE
    /\ stack' = <<>>
    /\ call_stack' = <<>>
    /\ pc' = 0
    /\ locals' = <<>>
    /\ out' = <<>>
    /\ status' = "ready"
    /\ exit_code' = <<>>
    /\ error' = ""
    /\ call_hist' = <<>>

\* What the front end makes of each source text
compiled == [src \in RunSources |-> compile_source(src)]

\* Worker w enters an except clause: self._state = the clause's state
Caught(w, e) ==
    [runner EXCEPT !._state = except(e).state,
                   !.workers[w].at = "on_complete",
                   !.workers[w].result = except(e)]

\* _run_impl, lines 76-83: the front end, then self._vm = QuinVM(...);
\* or the front end raises
worker_compile(w) ==
    /\ runner.workers[w].at = "compile"
    /\ Bind(compiled[runner.workers[w].source_code], LAMBDA cs :
       IF cs.raised = None
       THEN /\ runner' = [runner EXCEPT !._vm = w, !.workers[w].at = "vm"]
            /\ prog' = runner.workers[w].source_code
            /\ argA' = 0
            /\ argB' = 0
            /\ NewQuinVM(cs.code, cs.fns, cs.strings)
       ELSE /\ runner' = Caught(w, cs.raised)
            /\ UNCHANGED vmvars)
    /\ UNCHANGED <<lexer, parser>>

\* line 84, `self._vm.run_main()`: self._vm is read again, and may be None
worker_run_main(w) ==
    /\ runner.workers[w].at = "vm"
    /\ status = "ready"
    /\ IF runner._vm = 0
       THEN RunnerStep(Caught(w, Exception("AttributeError", "run_main", None)))
       ELSE run_main

\* run_main is executing: one pass of the loop of _run
worker_step(w) ==
    /\ runner.workers[w].at = "vm"
    /\ Step \/ Stopped \/ FellOffEnd

\* lines 84-86: run_main has returned; self._state = FINISHED
worker_finished(w) ==
    /\ runner.workers[w].at = "vm"
    /\ status = "finished"
    /\ RunnerStep([runner EXCEPT
           !._state = "FINISHED",
           !.workers[w].at = "on_complete",
           !.workers[w].result = RunResult("FINISHED", exit_code, None)])

\* run_main has raised ExecutionStopped, RuntimeError or IndexError
worker_raised(w) ==
    /\ runner.workers[w].at = "vm"
    /\ status \in {"stopped", "error"}
    /\ RunnerStep(Caught(w, Exception(
           IF status = "stopped" THEN "ExecutionStopped"
           ELSE IF error = IndexError THEN "IndexError" ELSE "RuntimeError",
           error, None)))

\* lines 87, 91, 98, 105, 109: self._on_complete(RunResult(...))
worker_on_complete(w) ==
    /\ runner.workers[w].at = "on_complete"
    /\ RunnerStep([runner EXCEPT
           !.completed = Append(@, [run |-> w, result |-> runner.workers[w].result]),
           !.workers[w].at = "finally"])

\* lines 114-115: finally: self._vm = None; the thread ends
worker_finally(w) ==
    /\ runner.workers[w].at = "finally"
    /\ RunnerStep([runner EXCEPT !._vm = 0, !.workers[w].at = "done"])

\* One step of a worker thread inside _run_impl
_run_impl(w) ==
    \/ worker_compile(w) \/ worker_run_main(w) \/ worker_step(w)
    \/ worker_finished(w) \/ worker_raised(w)
    \/ worker_on_complete(w) \/ worker_finally(w)

RunnerInit ==
    /\ runner = Runner
    /\ lexer = NoObject
    /\ parser = NoObject
    /\ NoVM

RunnerNext ==
    \/ \E src \in RunSources : run(src)
    \/ run_refused \/ stop_test \/ stop_request
    \/ \E w \in Runs : worker_compile(w)
    \/ \E w \in Runs : worker_run_main(w)
    \/ \E w \in Runs : worker_step(w)
    \/ \E w \in Runs : worker_finished(w)
    \/ \E w \in Runs : worker_raised(w)
    \/ \E w \in Runs : worker_on_complete(w)
    \/ \E w \in Runs : worker_finally(w)

RunnerSpec == RunnerInit /\ [][RunnerNext]_vars

\* Threads that can run are scheduled, and a stop() that was entered returns
FairRunnerSpec ==
    /\ RunnerSpec
    /\ WF_vars(stop_request)
    /\ \A w \in 1..MaxRuns : WF_vars(w \in Runs /\ _run_impl(w))

(***************************************************************************)
(* Properties                                                              *)
(***************************************************************************)
\* The step dispatches the instruction op at pc, which finds at least n
\* operands (the host thread's request_stop is the one other step possible
\* then, and the one that changes the flag).
Executes(op, n) == Dispatch(op) /\ Len(stack) >= n /\ UNCHANGED stop_requested

\* A value of the 16-bit range, and its reading as a signed 16-bit integer
Is16(v) == v \in 0..(Mod16 - 1)
Signed16(v) == IF 2 * v >= Mod16 THEN v - Mod16 ELSE v

\* a * b modulo 2^16 by doubling, for any a and b >= 0
RECURSIVE TimesMod16(_, _)
TimesMod16(a, b) ==
    IF b = 0 THEN 0
    ELSE (2 * TimesMod16(a, b \div 2) + (b % 2) * (a % Mod16)) % Mod16

\* C1: once the stop flag is set while main runs, the next pass of the
\* dispatch loop ends the run as stopped: no instruction executes (stack,
\* locals, call stack and pc stay as they are), nothing more is output and no
\* exit code is returned; a stopped run stays stopped, silent, without exit code.
C1_StopAtNextDispatch ==
    [][ /\ (stop_requested /\ status = "running" /\ pc < Len(code))
            => /\ status' = "stopped"
               /\ exit_code' = <<>>
               /\ UNCHANGED <<stack, call_stack, pc, locals, out>>
        /\ status = "stopped"
            => /\ status' = "stopped"
               /\ exit_code' = <<>>
               /\ UNCHANGED <<stack, call_stack, pc, locals, out>>
      ]_vars

\* C1's case: a run stopped in the middle, after it had produced output and
\* with instructions left to execute.
C1_Witness ==
    /\ status = "stopped"
    /\ Len(out) > 0
    /\ pc > 0
    /\ pc < Len(code)
    /\ exit_code = <<>>

\* C2: in a generated program, a RET that returns from a CALL leaves the
\* operands the caller had below the arguments untouched and exactly one
\* value above them: the depth is the caller's depth at the CALL minus
\* num_params plus 1.
C2_StackDiscipline ==
    [][ (prog # 0 /\ Executes("RET", 0) /\ Len(call_stack) > 0)
            => LET below == call_hist[Len(call_hist)].below IN
               /\ Len(stack') = Len(below) + 1
               /\ SubSeq(stack', 1, Len(below)) = below
      ]_vars

\* C2's failing case: a call has returned to main and left two values where
\* the caller had none.
C2_Witness ==
    /\ prog = 7
    /\ status = "running"
    /\ Len(call_stack) = 0
    /\ pc > 0
    /\ code[pc].op = "CALL"
    /\ Len(stack) = 2

\* C7: ADD, SUB, MUL and NEG push the mathematical result reduced modulo
\* 2^16, a value in 0..65535, whatever the operands.
C7_ArithmeticMod16 ==
    [][ /\ Executes("ADD", 2)
            => stack' = Append(Drop(2), (Top(2) + Top(1)) % Mod16)
        /\ Executes("SUB", 2)
            => stack' = Append(Drop(2), (Top(2) - Top(1)) % Mod16)
        /\ Executes("MUL", 2)
            => stack' = Append(Drop(2), TimesMod16(Top(2), Top(1)))
        /\ Executes("NEG", 1)
            => stack' = Append(Drop(1), (0 - Top(1)) % Mod16)
        /\ ((\E op \in {"ADD", "SUB", "MUL"} : Executes(op, 2)) \/ Executes("NEG", 1))
            => Is16(stack'[Len(stack')])
      ]_vars

\* C7's case: arithmetic has wrapped, an ADD whose sum passed 65535, a SUB
\* below zero or a MUL of two large values having just pushed its result.
C7_Witness ==
    /\ status = "running"
    /\ pc > 0
    /\ Len(stack) = 1
    /\ \/ code[pc].op = "ADD" /\ argA + argB >= Mod16 /\ stack[1] = argA + argB - Mod16
       \/ code[pc].op = "SUB" /\ argA < argB /\ stack[1] = argA - argB + Mod16
       \/ code[pc].op = "MUL" /\ argA = 65535 /\ argB = 65535 /\ stack[1] = 1
    /\ prog = 1

\* C9: a DIV whose divisor is zero raises the runtime error "Division by
\* zero": the run ends without exit code and the output is left as it was;
\* after an error nothing is output and no exit code appears.
C9_DivisionByZero ==
    [][ /\ (Executes("DIV", 2) /\ Top(1) = 0)
            => /\ status' = "error"
               /\ error' = "Division by zero"
               /\ exit_code' = <<>>
               /\ out' = out
        /\ status = "error"
            => /\ status' = "error"
               /\ exit_code' = <<>>
               /\ out' = out
      ]_vars

\* C9's case: a division by zero ended a run that had already printed.
C9_Witness ==
    /\ status = "error"
    /\ error = "Division by zero"
    /\ Len(out) > 0
    /\ exit_code = <<>>

\* The code of `a && b`, found by its shape: the JZ at pc i that follows a,
\* and at its target F - 3, F - 2, F - 1, F the instructions JZ F, PUSH_INT 1,
\* JMP F + 1, PUSH_INT 0.  The code of b lies between the two JZ, and the
\* expression ends at F + 1.
IsAndSite(i) ==
    /\ i \in 0..(Len(code) - 1)
    /\ code[i + 1].op = "JZ"
    /\ LET F == code[i + 1].arg IN
       /\ F >= i + 5
       /\ F < Len(code)
       /\ code[F + 1].op = "PUSH_INT" /\ code[F + 1].arg = 0
       /\ code[F].op = "JMP" /\ code[F].arg = F + 1
       /\ code[F - 1].op = "PUSH_INT" /\ code[F - 1].arg = 1
       /\ code[F - 2].op = "JZ" /\ code[F - 2].arg = F

\* The code of `a || b`: JNZ in place of JZ, and the two results exchanged.
IsOrSite(i) ==
    /\ i \in 0..(Len(code) - 1)
    /\ code[i + 1].op = "JNZ"
    /\ LET T == code[i + 1].arg IN
       /\ T >= i + 5
       /\ T < Len(code)
       /\ code[T + 1].op = "PUSH_INT" /\ code[T + 1].arg = 1
       /\ code[T].op = "JMP" /\ code[T].arg = T + 1
       /\ code[T - 1].op = "PUSH_INT" /\ code[T - 1].arg = 0
       /\ code[T - 2].op = "JNZ" /\ code[T - 2].arg = T

\* pc is where the short-circuit result of some && (0) or || (1) is pushed
AtFalsePc == \E i \in 0..(Len(code) - 1) : IsAndSite(i) /\ pc = code[i + 1].arg
AtTruePc == \E i \in 0..(Len(code) - 1) : IsOrSite(i) /\ pc = code[i + 1].arg

\* pc is just behind the code of some && or ||
AtExprEnd ==
    \E i \in 0..(Len(code) - 1) : (IsAndSite(i) \/ IsOrSite(i)) /\ pc = code[i + 1].arg + 1

\* When a of `a && b` is false (a of `a || b` true) the step behind a goes
\* straight to the instruction that pushes 0 (1), past the code of b, without
\* output or call, and that instruction leads to the end of the expression.
ShortCircuitSkips ==
    /\ (Executes("JZ", 1) /\ IsAndSite(pc) /\ Top(1) = 0)
        => /\ pc' = code[pc + 1].arg
           /\ UNCHANGED <<out, call_stack>>
    /\ (Executes("PUSH_INT", 0) /\ AtFalsePc)
        => /\ stack' = Append(stack, 0)
           /\ pc' = pc + 1
           /\ UNCHANGED <<out, call_stack>>
    /\ (Executes("JNZ", 1) /\ IsOrSite(pc) /\ Top(1) # 0)
        => /\ pc' = code[pc + 1].arg
           /\ UNCHANGED <<out, call_stack>>
    /\ (Executes("PUSH_INT", 0) /\ AtTruePc)
        => /\ stack' = Append(stack, 1)
           /\ pc' = pc + 1
           /\ UNCHANGED <<out, call_stack>>

\* In the programs run here every && and || is the condition of an if
\* statement of main that starts on an empty operand stack: at its end the
\* expression has left exactly one value, 0 or 1.
LeavesOneBoolean ==
    (status = "running" /\ Len(call_stack) = 0 /\ AtExprEnd)
        => (Len(stack) = 1 /\ stack[1] \in {0, 1})

\* The two short-circuit paths on their own: they hold in every run.
ShortCircuitHolds == [][ShortCircuitSkips]_vars

\* C3: a false a of `a && b` skips b and yields 0, a true a of `a || b` skips
\* b and yields 1, and in all cases the expression leaves exactly one value,
\* 0 or 1, on the operand stack.
C3_ShortCircuit == [][ShortCircuitSkips /\ LeavesOneBoolean]_vars

\* C3's failing case: `true && t()` has been evaluated in main, where t leaves
\* the value of an expression statement under its result.
C3_Witness ==
    /\ prog = 8
    /\ status = "running"
    /\ Len(call_stack) = 0
    /\ AtExprEnd
    /\ Len(stack) = 2

\* The output of the three programs that call user functions, as the source
\* reads: say(5) then say(3) print 5 and 3 and sub yields 5 - 3; twice(4)
\* prints its parameter and yields 8; even(2) is true by way of odd(1), even(0).
CallOutput ==
    CASE prog = 4 -> <<"5\n", "3\n", "2\n">>
      [] prog = 5 -> <<"4\n", "8\n">>
      [] prog = 6 -> <<"1\n">>

\* C4: a call of a user function, defined before or after its caller or
\* mutually recursive with it, evaluates the arguments left to right, runs
\* the body with the parameters bound to them and yields what the body returns.
C4_UserCalls ==
    (status = "finished" /\ prog \in {4, 5, 6}) => out = CallOutput

\* C4's failing case: main has finished although the function it calls, which
\* is defined after it, never ran.
C4_Witness ==
    /\ prog = 5
    /\ status = "finished"
    /\ out = <<"0\n">>
    /\ \A i \in 1..Len(code) : code[i].op # "CALL"

\* The quotient of two 16-bit values read as signed integers, truncated
\* toward zero and stored as a 16-bit value
Abs(x) == IF x < 0 THEN 0 - x ELSE x
SignedQuotient(a, b) ==
    LET sa == Signed16(a)
        sb == Signed16(b)
        q == Abs(sa) \div Abs(sb)
    IN (IF (sa < 0) = (sb < 0) THEN q ELSE 0 - q) % Mod16

\* C5: DIV pops b then a and pushes the quotient of a and b taken as signed
\* 16-bit integers, truncated toward zero, as a 16-bit value.
C5_SignedDivision ==
    [][ (Executes("DIV", 2) /\ Is16(Top(1)) /\ Is16(Top(2)) /\ Top(1) # 0)
            => stack' = Append(Drop(2), SignedQuotient(Top(2), Top(1)))
      ]_vars

\* C5's failing case: (0 - 7) / 2 has pushed 32764, not 0xFFFD.
C5_Witness ==
    /\ prog = 1 /\ argA = 7 /\ argB = 2
    /\ status = "running"
    /\ pc > 0
    /\ code[pc].op = "DIV"
    /\ stack = <<32764>>

\* C6: CMP_LT, CMP_LE, CMP_GT and CMP_GE compare their operands as signed
\* 16-bit integers and push exactly 0 or 1.
C6_SignedComparison ==
    [][ \A op \in {"CMP_LT", "CMP_LE", "CMP_GT", "CMP_GE"} :
          (Executes(op, 2) /\ Is16(Top(1)) /\ Is16(Top(2)))
            => LET a == Signed16(Top(2))
                   b == Signed16(Top(1))
               IN stack' = Append(Drop(2),
                      CASE op = "CMP_LT" -> Truth(a < b)
                        [] op = "CMP_LE" -> Truth(a <= b)
                        [] op = "CMP_GT" -> Truth(a > b)
                        [] OTHER -> Truth(a >= b))
      ]_vars

\* C6's failing case: 0 - 1 < 0 has been found false.
C6_Witness ==
    /\ prog = 2 /\ argA = 1 /\ argB = 0
    /\ status = "running"
    /\ pc > 1
    /\ code[pc].op = "CMP_LT"
    /\ code[pc - 2].op = "SUB"
    /\ stack = <<0>>

\* C8: the exit code is the value main returns reduced modulo 2^16, and 0
\* when main's RET finds the operand stack empty or the run passes the last
\* instruction.
C8_ExitCode ==
    [][ /\ (Executes("RET", 0) /\ Len(call_stack) = 0)
            => /\ status' = "finished"
               /\ exit_code' = <<IF Len(stack) > 0 THEN Top(1) % Mod16 ELSE 0>>
        /\ (status = "running" /\ pc >= Len(code) /\ status' # status)
            => /\ status' = "finished"
               /\ exit_code' = <<0>>
      ]_vars

\* C8's failing case: main has returned the literal 70000 and the exit code
\* is outside 0..65535.
C8_Witness ==
    /\ status = "finished"
    /\ exit_code = <<70000>>

\* C10: PRINT_INT and PRINTLN_INT write a 16-bit value as the decimal number
\* it is when read as a signed integer.
C10_SignedPrint ==
    [][ /\ (Executes("PRINT_INT", 1) /\ Is16(Top(1)))
            => out' = Append(out, int_str(Signed16(Top(1))))
        /\ (Executes("PRINTLN_INT", 1) /\ Is16(Top(1)))
            => out' = Append(out, int_str(Signed16(Top(1))) \o "\n")
      ]_vars

\* C10's failing case: println(0 - 1) has written 65535.
C10_Witness ==
    /\ prog = 1 /\ argA = 0 /\ argB = 1
    /\ Len(out) >= 2
    /\ out[2] = "65535\n"

\* The programs in which every == and != compares two operands of type str
StrCompares == {16}

\* No two string ids of the program's table hold the same text.
InternedOnce ==
    \A i, j \in 1..Len(strings) : strings[i] = strings[j] => i = j

\* C11: == on two operands of type str yields 1 exactly when the texts the
\* two ids stand for are equal, != the opposite, and a text has one id in the
\* string table however often it is written.
C11_StringEquality ==
    [][ /\ prog \in StrCompares => InternedOnce
        /\ \A op \in {"CMP_EQ", "CMP_NE"} :
              (prog \in StrCompares /\ Executes(op, 2))
                => stack' = Append(Drop(2),
                      Truth((string_get(Top(2)) = string_get(Top(1)))
                              = (op = "CMP_EQ")))
      ]_vars

\* C11's failing case: "a" == "a" has compared the ids 1 and 2, both of
\* which hold the text a, and pushed 0.
C11_Witness ==
    /\ prog = 16
    /\ status = "running"
    /\ pc > 2
    /\ code[pc].op = "CMP_EQ"
    /\ code[pc - 1] = Instruction("PUSH_INT", 2)
    /\ code[pc - 2] = Instruction("PUSH_INT", 1)
    /\ strings[2] = strings[3]
    /\ stack = <<0>>

\* The source program the state's bytecode was compiled from
Source == Program(prog, argA, argB)

\* C12: every program the analyzer accepts holds a function named main whose
\* declared return type is int or void, or is absent; a compiled program is
\* one the analyzer has accepted.
C12_MainReturnType ==
    prog # 0 =>
        /\ \E i \in 1..Len(Source) : Source[i].name = "main"
        /\ \A i \in 1..Len(Source) :
              Source[i].name = "main"
                => Source[i].return_type \in {NoTypeName, TypeName("int"), TypeName("void")}

\* C12's failing case: `fn main(): bool { return true; }` was accepted and
\* compiled, and its run has ended with exit code 1.
C12_Witness ==
    /\ prog = 17
    /\ Source[1].name = "main"
    /\ Source[1].return_type = TypeName("bool")
    /\ analyze(Source).ok
    /\ status = "finished"
    /\ exit_code = <<1>>

\* Every element of the sequence is a 16-bit value.
AllIs16(seq) == \A i \in 1..Len(seq) : Is16(seq[i])

\* C18: while a generated program runs, every value on the operand stack, in
\* the current frame's locals and in the locals of every saved frame is an
\* integer in 0..65535.
C18_SixteenBitValues ==
    prog # 0 =>
        /\ AllIs16(stack)
        /\ AllIs16(locals)
        /\ \A k \in 1..Len(call_stack) : AllIs16(call_stack[k][2])

\* C18's failing case: PUSH_INT has placed the literal 70000 on the operand
\* stack as it stands.
C18_Witness ==
    /\ prog = 1 /\ argA = 70000
    /\ status = "running"
    /\ pc = 1
    /\ code[pc] = Instruction("PUSH_INT", 70000)
    /\ stack = <<70000>>

\* The pc behind the last instruction of the i-th function: functions are
\* emitted one after the other, in the order of the table.
FnEnd(i) == IF i < Len(functions) THEN functions[i + 1].entry_pc ELSE Len(code)

\* The code of the i-th function ends with PUSH_INT 0; RET.
EndsWithReturnZero(i) ==
    /\ FnEnd(i) - functions[i].entry_pc >= 2
    /\ code[FnEnd(i) - 1] = Instruction("PUSH_INT", 0)
    /\ code[FnEnd(i)] = Instruction("RET", NoArg)

\* The instruction at pc is the last one of a function.
AtFnEnd == \E i \in 1..Len(functions) : pc + 1 = FnEnd(i)

\* C19: the code of every function of a generated program ends with
\* PUSH_INT 0; RET, whatever its return type, and the RET that ends a called
\* function returns 0 on top of the operands the caller had below the
\* arguments, none of them popped.
C19_ImplicitReturn ==
    [][ /\ prog # 0 => \A i \in 1..Len(functions) : EndsWithReturnZero(i)
        /\ (prog # 0 /\ Executes("RET", 0) /\ AtFnEnd /\ Len(call_stack) > 0)
              => LET below == call_hist[Len(call_hist)].below IN
                 /\ Len(stack') > Len(below)
                 /\ SubSeq(stack', 1, Len(below)) = below
                 /\ stack'[Len(stack')] = 0
      ]_vars

\* C19's failing case: the code of `fn v(): void { }` is the one instruction
\* RET, and the second v() of `v() == v()` has returned by popping the result
\* of the first: one operand is left for CMP_EQ.
C19_Witness ==
    /\ prog = 9
    /\ functions[1].name = "v"
    /\ FnEnd(1) - functions[1].entry_pc = 1
    /\ code[FnEnd(1)] = Instruction("RET", NoArg)
    /\ status = "running"
    /\ Len(call_stack) = 0
    /\ pc > 1
    /\ code[pc].op = "CALL"
    /\ code[pc - 1].op = "CALL"
    /\ code[pc + 1].op = "CMP_EQ"
    /\ Len(stack) = 1

\* The local slots the VarDecls of a block ask for, met in the pre-order walk
\* of the block: N for an int[N] with N > 0, one for any other declaration.
RECURSIVE DeclSlots(_)
DeclSlots(block) ==
    IF Len(block) = 0 THEN 0
    ELSE LET st == Head(block)
             here == CASE st.kind = "VarDecl" ->
                            (IF st.type_name.arr /\ st.type_name.n > 0
                             THEN st.type_name.n ELSE 1)
                       [] st.kind = "If" ->
                            DeclSlots(st.then_block) + DeclSlots(st.else_block)
                       [] st.kind = "While" -> DeclSlots(st.body)
                       [] OTHER -> 0
         IN here + DeclSlots(Tail(block))

\* What ProgShadow prints when the x of each block is a variable of its own
ShadowOutput == <<"2\n", "9\n", "1\n">>

\* C20: the frame of every function holds one slot per parameter and, for
\* every VarDecl of the body, slots of its own (N for int[N]), so no two
\* VarDecls share a slot; a variable declared in a nested block leaves the
\* outer variable of the same name as it was.
C20_DistinctSlots ==
    prog # 0 =>
        /\ \A i \in 1..Len(functions) :
              functions[i].num_locals
                  = Len(Source[i].params) + DeclSlots(Source[i].body)
        /\ (prog = 18 /\ status = "finished") => out = ShadowOutput

\* C20's failing case: the three declarations of x in ProgShadow ask for
\* four slots and main's frame has one; the inner declarations have written
\* to the slot of the outer x, which is printed last.
C20_Witness ==
    /\ prog = 18
    /\ DeclSlots(Source[1].body) = 4
    /\ functions[1].num_locals = 1
    /\ status = "finished"
    /\ out = <<"2\n", "0\n", "0\n">>

\* Every scan step moves the read position forward by one character or more.
ScanAdvances ==
    [][ Scanning => lexer'.current > lexer.current ]_vars

\* The EOF tokens of a token list are the last one, and only it.
OneEOFLast(toks) ==
    /\ Len(toks) > 0
    /\ \A k \in 1..Len(toks) : (toks[k].type = "EOF") = (k = Len(toks))

\* The list tokenize returns holds one EOF token, in last position.
ReturnsOneEOF == lexer.state = "returned" => OneEOFLast(lexer.tokens)

\* C17: tokenize raises on no source text, every scan step moves the read
\* position forward by one character or more (so the scan ends after at most
\* len(source) steps), and the list returned holds exactly one EOF token, the
\* last one.
C17_TokenizeTotal ==
    [][ /\ lexer'.state # "raised"
        /\ Scanning => lexer'.current > lexer.current
        /\ lexer'.state = "returned" => OneEOFLast(lexer'.tokens)
      ]_vars

\* C17's failing case: the text is a digit followed by a superscript two;
\* _number has scanned both as one number and int() has raised ValueError
\* before any token was added.
C17_Witness ==
    /\ lexer.state = "raised"
    /\ lexer.source = <<"7", "^2">>
    /\ lexer.current = 2
    /\ lexer.tokens = <<>>

\* The step consumes a token or ends parse, by a return or by a ParseError.
ParserProgress ==
    \/ parser'.current > parser.current
    \/ parser'.state \in {"returned", "raised"}

\* A ParseError carries the line and column of the token the parser stood
\* at when it raised.
ErrorAtToken ==
    parser'.state = "raised"
        => /\ parser'.line = parser.tokens[parser'.current + 1].line
           /\ parser'.col = parser.tokens[parser'.current + 1].col

\* Outside a vm_asm block every step of the parser consumes a token or ends
\* parse; the end of the tokens inside a `{` block raises a ParseError.
ProgressOutsideVmAsm ==
    [][ (Parsing /\ ~InVmAsm) => (ParserProgress /\ ErrorAtToken) ]_vars

\* C13: on a token list that ends with EOF, every step parse takes consumes
\* a token, returns the Program or raises a ParseError that carries the line
\* and column of the unexpected token; no pass of a loop, the end of the
\* tokens inside a block or a vm_asm block included, leaves the position
\* where it was.
C13_ParseTerminates ==
    [][ Parsing => (ParserProgress /\ ErrorAtToken) ]_vars

\* C13's failing case: in `fn f() { vm_asm {` the loop of _vm_asm_block has
\* made a pass at EOF: the position is still at EOF, one more part was
\* collected, and parse has neither returned nor raised.
C13_Witness ==
    /\ parser.state = "parsing"
    /\ [k \in 1..Len(parser.tokens) |-> parser.tokens[k].type]
           = FunctionHead \o <<"VM_ASM", "LEFT_BRACE", "EOF">>
    /\ InVmAsm
    /\ at_end(parser.tokens, parser.current)
    /\ parser.current_parts = 1

\* The RunResults on_complete was given for run w
Completions(w) == {k \in 1..Len(runner.completed) : runner.completed[k].run = w}

\* A RunResult is FINISHED with an exit code, STOPPED, or ERROR with a message
WellFormed(r) ==
    /\ r.state \in {"FINISHED", "STOPPED", "ERROR"}
    /\ r.state = "FINISHED" => (Len(r.exit_code) = 1 /\ r.error_message = None)
    /\ r.state = "STOPPED" => (r.exit_code = None /\ r.error_message = None)
    /\ r.state = "ERROR" => (r.exit_code = None /\ r.error_message # None)

\* on_complete is called once per run, at its end, with the run's result
OneCompletion ==
    \A w \in Runs :
        /\ Cardinality(Completions(w)) =
               IF runner.workers[w].at \in {"finally", "done"} THEN 1 ELSE 0
        /\ \A k \in Completions(w) :
               /\ runner.completed[k].result = runner.workers[w].result
               /\ WellFormed(runner.completed[k].result)

\* Worker w leaves run_main (or the call of it) for the callback, reporting
\* how the execution ended
ReportsOutcome(w) ==
    (runner.workers[w].at = "vm" /\ runner'.workers[w].at = "on_complete") =>
        Bind(runner'.workers[w].result, LAMBDA r :
            /\ runner'._state = r.state
            /\ status = "stopped" => r = RunResult("STOPPED", None, None)
            /\ status = "error" =>
                   r = RunResult("ERROR", None, <<"Runtime error: ", error>>)
            /\ status = "finished" =>
                   (r = RunResult("FINISHED", exit_code, None) /\ Len(exit_code) = 1)
            /\ status = "ready" => r.state = "ERROR")

\* C14: every run hands on_complete exactly one RunResult, when it ends; the
\* result is FINISHED with the exit code, STOPPED, or ERROR with a message;
\* an execution the stop flag ended is reported STOPPED, and one a runtime
\* error ended is reported ERROR.
C14_OneCompletionPerRun ==
    /\ []OneCompletion
    /\ [][\A w \in Runs : ReportsOutcome(w)]_vars

\* Both runs are over: one was stopped by the flag, the other divided by zero.
C14_Witness ==
    /\ Len(runner.workers) = 2
    /\ \A w \in Runs : runner.workers[w].at = "done"
    /\ \E w \in Runs : runner.workers[w].result = RunResult("STOPPED", None, None)
    /\ \E w \in Runs : runner.workers[w].result =
           RunResult("ERROR", None, <<"Runtime error: ", "Division by zero">>)
    /\ Len(runner.completed) = 2

\* stop() was called while run w, of the program that loops forever, was RUNNING
StopCalled(w) ==
    /\ w \in Runs
    /\ w \in runner.stop_calls
    /\ runner.workers[w].source_code = 11
CompletedAs(w, state) ==
    \E k \in Completions(w) : runner.completed[k].result.state = state

\* C15: once stop() has been called while a run is RUNNING, compiling
\* included, the run of a program that would loop forever completes with
\* state STOPPED.
C15_StopNeverLost ==
    \A w \in 1..MaxRuns : StopCalled(w) ~> CompletedAs(w, "STOPPED")

\* stop() was called while the looping program was being compiled; the
\* QuinVM built since then executes with its stop flag clear.
C15_Witness ==
    \E w \in Runs :
        /\ StopCalled(w)
        /\ runner.host = "idle"
        /\ runner.workers[w].at = "vm"
        /\ status = "running"
        /\ ~stop_requested

\* The worker threads that are inside _run_impl
InRunImpl == {w \in Runs : Executing(w)}

\* C16: at most one worker thread is executing _run_impl, be it compiling,
\* running the QuinVM, delivering on_complete or cleaning up.
C16_SingleWorker == Cardinality(InRunImpl) <= 1

\* run() has returned True a second time and its worker is compiling, while
\* the worker of the first run has yet to call on_complete.
C16_Witness ==
    /\ Len(runner.workers) = 2
    /\ runner.returned = TRUE
    /\ runner.workers[1].at = "on_complete"
    /\ runner.workers[2].at = "compile"

\* run() starts a thread only when the state is not RUNNING, and answers
\* False, starting nothing, when it is.
RunGuarded ==
    [][/\ Len(runner'.workers) > Len(runner.workers) =>
              (~is_running /\ runner'.returned = TRUE)
       /\ (is_running /\ runner.host = "idle") =>
              Len(runner'.workers) = Len(runner.workers)]_vars

\* stop() has passed its test and is about to call self._vm.request_stop()
StopReaching == runner.host = "request_stop"

\* C30: stop() never raises, and the QuinVM it is about to reach is that of
\* the run in progress: the finally clause of an earlier run's worker does
\* not reset, and an earlier run's QuinVM does not occupy, self._vm.
C30_StopNeverFails ==
    /\ runner.raised = None
    /\ StopReaching => runner._vm = Len(runner.workers)

\* stop() has raised AttributeError in the host while the second run, which
\* it was to stop, is RUNNING.
C30_Witness ==
    /\ runner.raised = Exception("AttributeError", "request_stop", None)
    /\ Len(runner.workers) = 2
    /\ is_running

\* The expression nodes of the AST (compiler/ast.py), each named by the path
\* the analyzer gives it: the node e at path p (if own) and the nodes below
\* it.  With targets = FALSE the nodes that stand as an assignment target or
\* as the operand of & are left out, their own operands are not.
RECURSIVE expr_nodes(_, _, _, _)
expr_nodes(e, p, own, targets) ==
    (IF own THEN {p} ELSE {}) \cup
    CASE e.kind = "Unary" -> expr_nodes(e.right, p \o <<1>>, TRUE, targets)
      [] e.kind = "Binary" ->
            expr_nodes(e.left, p \o <<1>>, TRUE, targets)
            \cup expr_nodes(e.right, p \o <<2>>, TRUE, targets)
      [] e.kind = "Index" ->
            expr_nodes(e.array, p \o <<1>>, TRUE, targets)
            \cup expr_nodes(e.index, p \o <<2>>, TRUE, targets)
      [] e.kind = "AddressOf" -> expr_nodes(e.target, p \o <<1>>, targets, targets)
      [] e.kind = "Call" ->
            UNION {expr_nodes(e.args[i], p \o <<i>>, TRUE, targets) : i \in 1..Len(e.args)}
      [] OTHER -> {}

\* The expression nodes of the statement st at path sp, and of a block
RECURSIVE stmt_nodes(_, _, _)
block_nodes(block, bp, targets) ==
    UNION {stmt_nodes(block[i], bp \o <<i>>, targets) : i \in 1..Len(block)}
stmt_nodes(st, sp, targets) ==
    CASE st.kind = "VarDecl" ->
            IF st.init.kind = "None" THEN {}
            ELSE expr_nodes(st.init, sp \o <<1>>, TRUE, targets)
      [] st.kind = "Assign" ->
            expr_nodes(st.target, sp \o <<1>>, targets, targets)
            \cup expr_nodes(st.value, sp \o <<2>>, TRUE, targets)
      [] st.kind \in {"Print", "PrintLn"} -> expr_nodes(st.value, sp \o <<1>>, TRUE, targets)
      [] st.kind = "Return" ->
            IF st.value.kind = "None" THEN {}
            ELSE expr_nodes(st.value, sp \o <<1>>, TRUE, targets)
      [] st.kind = "ExprStmt" -> expr_nodes(st.expr, sp \o <<1>>, TRUE, targets)
      [] st.kind = "If" ->
            expr_nodes(st.cond, sp \o <<1>>, TRUE, targets)
            \cup block_nodes(st.then_block, sp \o <<2>>, targets)
            \cup block_nodes(st.else_block, sp \o <<3>>, targets)
      [] st.kind = "While" ->
            expr_nodes(st.cond, sp \o <<1>>, TRUE, targets)
            \cup block_nodes(st.body, sp \o <<2>>, targets)
      [] OTHER -> {}

program_nodes(program, targets) ==
    UNION {block_nodes(program[f].body, <<f>>, targets) : f \in 1..Len(program)}

\* The expression nodes of the compiled program that the side table misses
Untyped(targets) ==
    IF prog = 0 THEN {}
    ELSE Bind(analyze(Source), LAMBDA ctx :
         {p \in program_nodes(Source, targets) : ~has_type(ctx, p)})

\* Apart from assignment targets and operands of &, every expression node
\* has its entry, and the side table holds nothing else.
TypedButTargets ==
    /\ Untyped(FALSE) = {}
    /\ prog # 0 => DOMAIN analyze(Source).node_type = program_nodes(Source, FALSE)

\* C21: the side table of an accepted program holds a type for every
\* expression node, identifiers and index expressions that are assignment
\* targets or operands of & included.
C21_SideTableComplete == Untyped(TRUE) = {}

\* The program with xs[0] = 10 and &xs[2] has run to its end: the target
\* xs[0] of its third statement has no entry in the side table.
C21_Witness ==
    /\ prog = 12
    /\ status = "finished"
    /\ <<1, 3, 1>> \in Untyped(TRUE)

\* The function whose code range holds instruction index i: the last one of
\* the table whose entry_pc is at most i (0 when there is none)
FnOf(i) ==
    IF \E k \in 1..Len(functions) : functions[k].entry_pc <= i
    THEN CHOOSE k \in 1..Len(functions) :
            /\ functions[k].entry_pc <= i
            /\ \A j \in 1..Len(functions) :
                   functions[j].entry_pc <= i => functions[j].entry_pc <= functions[k].entry_pc
    ELSE 0

JumpOps == {"JMP", "JZ", "JNZ"}

\* Every jump of the code stays in its function, every CALL names a function
OperandsValid ==
    \A i \in 0..(Len(code) - 1) :
        /\ code[i + 1].op \in JumpOps =>
               /\ code[i + 1].arg \in 0..(Len(code) - 1)
               /\ FnOf(code[i + 1].arg) = FnOf(i)
        /\ code[i + 1].op = "CALL" => code[i + 1].arg \in 0..(Len(functions) - 1)

\* A step that moves the program counter to another function's code, or
\* past the end of the code, dispatches CALL or RET
LeavesByCallOrRet ==
    (status = "running" /\ pc' # pc /\ (pc' >= Len(code) \/ FnOf(pc') # FnOf(pc)))
        => code[pc + 1].op \in {"CALL", "RET"}

\* C22: in generated bytecode every JMP/JZ/JNZ operand is an instruction
\* index inside the code range of the function that holds the jump, every
\* CALL operand is an index into the function table, and the program counter
\* leaves a function's code range only by CALL and RET.
C22_JumpsStayInFunction ==
    /\ [](prog # 0 => OperandsValid)
    /\ [][prog # 0 => LeavesByCallOrRet]_vars

\* Inside a call, in a function that is not the first of the table, the VM
\* is about to dispatch a jump.
C22_Witness ==
    /\ prog # 0
    /\ status = "running"
    /\ pc < Len(code)
    /\ code[pc + 1].op \in JumpOps
    /\ FnOf(pc) > 1
    /\ call_stack # <<>>

\* The step is a CALL that enters its callee
Calls ==
    /\ Dispatch("CALL")
    /\ status' = "running"
    /\ Len(call_stack') = Len(call_stack) + 1

\* The frame CALL installs: num_locals zeros, with the num_params values
\* popped from the stack in locals 0..num_params-1, first argument first
FreshFrame(fn) ==
    [i \in 1..fn.num_locals |->
        IF i <= fn.num_params THEN stack[Len(stack) - fn.num_params + i] ELSE 0]

CallInstalls ==
    Calls => /\ locals' = FreshFrame(functions[code[pc + 1].arg + 1])
             /\ call_stack'[Len(call_stack')] = <<pc + 1, locals>>

\* No step changes a frame that lies saved on the call stack
FramesKept ==
    \A k \in 1..Len(call_stack) : k <= Len(call_stack') => call_stack'[k] = call_stack[k]

\* RET in a callee gives the caller its saved pc and locals back
RetRestores ==
    (Dispatch("RET") /\ call_stack # <<>> /\ UNCHANGED stop_requested) =>
        /\ pc' = call_stack[Len(call_stack)][1]
        /\ locals' = call_stack[Len(call_stack)][2]

\* The caller's frame is saved at CALL, kept until the matching RET and
\* restored by it
CallerFrameKept == [][(Calls => call_stack'[Len(call_stack')] = <<pc + 1, locals>>)
                      /\ FramesKept /\ RetRestores]_vars

\* C23: CALL installs a frame of num_locals zeros holding the popped
\* arguments in locals 0..num_params-1 in source order; until the matching
\* RET nothing changes the caller's saved locals, and RET restores them and
\* the pc after the CALL.
C23_CallFrames == [][CallInstalls /\ FramesKept /\ RetRestores]_vars

\* f(70000, 1) has returned: the callee printed its two parameters, and main
\* goes on with its own x and y.
C23_Witness ==
    /\ prog = 23 /\ argA = 70000 /\ argB = 1
    /\ status = "running"
    /\ call_stack = <<>>
    /\ Len(out) >= 2
    /\ locals = <<5, 6>>

(***************************************************************************)
(* C24: bounds of the indexed and indirect accesses                        *)
(***************************************************************************)
\* A slot number outside 0..num_locals-1 of the current frame
OutOfFrame(i) == i < 0 \/ i >= Len(locals)

\* The step raises, and neither the locals nor the output change.
RaisesUnchanged == status' = "error" /\ locals' = locals /\ out' = out

\* The two stores and LOAD_INDIRECT test the slot themselves.
CheckedAccessesRaise ==
    [][/\ Executes("STORE_LOCAL_IDX", 2) /\ OutOfFrame(arg + Top(1)) => RaisesUnchanged
       /\ Executes("LOAD_INDIRECT", 1) /\ OutOfFrame(Top(1)) => RaisesUnchanged
       /\ Executes("STORE_INDIRECT", 2) /\ OutOfFrame(Top(2)) => RaisesUnchanged]_vars

\* LOAD_LOCAL_IDX raises above the frame (an IndexError of the list).
LoadAboveFrameRaises ==
    [][Executes("LOAD_LOCAL_IDX", 1) /\ arg + Top(1) >= Len(locals)
           => RaisesUnchanged]_vars

\* C24: LOAD_LOCAL_IDX and STORE_LOCAL_IDX with base + index outside
\* 0..num_locals-1, and LOAD_INDIRECT and STORE_INDIRECT with a pointer
\* outside it, raise a runtime error and change neither locals nor output.
C24_OutOfFrameRaises ==
    [][/\ Executes("LOAD_LOCAL_IDX", 1) /\ OutOfFrame(arg + Top(1)) => RaisesUnchanged
       /\ Executes("STORE_LOCAL_IDX", 2) /\ OutOfFrame(arg + Top(1)) => RaisesUnchanged
       /\ Executes("LOAD_INDIRECT", 1) /\ OutOfFrame(Top(1)) => RaisesUnchanged
       /\ Executes("STORE_INDIRECT", 2) /\ OutOfFrame(Top(2)) => RaisesUnchanged]_vars

\* LOAD_LOCAL_IDX 1 with index -2 (slot -1 of three) has pushed locals[2],
\* the program printed it and ended normally.
C24_Witness ==
    /\ prog = 0 /\ argA = 1 /\ argB = 0 - 2
    /\ status = "finished"
    /\ out = <<"7">>

(***************************************************************************)
(* C25: MEMCPY_LOCALS                                                      *)
(***************************************************************************)
\* The operands of the MEMCPY_LOCALS about to run
CopyOperands == [count |-> Top(1), src |-> Top(2), dst |-> Top(3)]

\* Every slot the copy touches is a slot of the frame.
CopyInRange(ops) ==
    ops.count > 0 => /\ ops.src >= 0 /\ ops.src + ops.count <= Len(locals)
                   /\ ops.dst >= 0 /\ ops.dst + ops.count <= Len(locals)

\* What slot dst + i holds after an ascending copy: when the destination
\* starts inside the source, d slots above its start, the first d source
\* slots repeat; otherwise the source slot is still the original one.
AscendingValue(ops, i) ==
    IF ops.dst > ops.src /\ ops.dst - ops.src < ops.count
    THEN locals[ops.src + (i % (ops.dst - ops.src)) + 1]
    ELSE locals[ops.src + i + 1]

CopiesAscending(ops) ==
    /\ status' = status
    /\ Len(locals') = Len(locals)
    /\ \A slot \in 0..(Len(locals) - 1) :
           locals'[slot + 1] = IF slot \in ops.dst..(ops.dst + ops.count - 1)
                            THEN AscendingValue(ops, slot - ops.dst)
                            ELSE locals[slot + 1]
    /\ ops.dst = ops.src + 1 =>
           \A slot \in ops.dst..(ops.dst + ops.count - 1) : locals'[slot + 1] = locals[ops.src + 1]

\* C25: MEMCPY_LOCALS with count >= 0 and every touched slot in range copies
\* in ascending order, reading each source slot when it is copied (with
\* dst = src + 1 every destination slot gets the original locals[src]), and
\* leaves the other slots unchanged; a negative count raises a runtime error
\* and changes no slot.
C25_MemcpyAscending ==
    [][Executes("MEMCPY_LOCALS", 3) =>
           /\ CopyOperands.count >= 0 /\ CopyInRange(CopyOperands)
                  => CopiesAscending(CopyOperands)
           /\ CopyOperands.count < 0 => status' = "error" /\ locals' = locals]_vars

\* memcpy with dst 1, src 0 and count 3 on the locals 1, 2, 3, 4 has run ...
C25_Witness ==
    /\ prog = 0 /\ argA = Len(RawOps) + 1
    /\ CopyDst(argB) = 1 /\ CopySrc(argB) = 0 /\ CopyCount(argB) = 3
    /\ status = "finished"
    /\ locals = <<1, 1, 1, 1>>

\* ... and memcpy(&xs[1], &xs[0], 2) of a compiled program, on xs = 7, 7, 30.
C25_CompiledCopy ==
    /\ prog = 12
    /\ pc > 0 /\ code[pc].op = "MEMCPY_LOCALS"
    /\ status = "running"
    /\ SubSeq(locals, 1, 3) = <<7, 7, 7>>

(***************************************************************************)
(* C26: an indexed write is read back                                      *)
(***************************************************************************)
\* The variables of a function the analyzer types int[N], as (name, N): its
\* parameters and the declarations of every block (type_from_name).
RECURSIVE block_arrays(_, _)
stmt_arrays(st) ==
    CASE st.kind = "VarDecl" ->
            IF is_array_type(type_from_name(st.type_name))
            THEN {<<st.name, st.type_name.n>>} ELSE {}
      [] st.kind = "If" -> block_arrays(st.then_block, 1) \cup block_arrays(st.else_block, 1)
      [] st.kind = "While" -> block_arrays(st.body, 1)
      [] OTHER -> {}
block_arrays(block, i) ==
    IF i > Len(block) THEN {}
    ELSE stmt_arrays(block[i]) \cup block_arrays(block, i + 1)
ArrayVariables(fn) ==
    {<<fn.params[k].name, fn.params[k].type_name.n>> :
        k \in {j \in 1..Len(fn.params) :
                  is_array_type(type_from_name(fn.params[j].type_name))}}
    \cup block_arrays(fn.body, 1)

\* The slots a layout gives to a name
SlotsOf(L, name) ==
    L.local_index[name] ..
        (L.local_index[name] + (IF name \in DOMAIN L.arrays THEN L.arrays[name] ELSE 1) - 1)

\* The layout of fn gives every int[N] variable N slots of its own, known to
\* the lowering of xs[i] (layout.arrays).
ArraysLaidOut(fn) ==
    \A v \in ArrayVariables(fn) :
        /\ v[1] \in DOMAIN build_layout(fn).arrays
        /\ build_layout(fn).arrays[v[1]] = v[2]
        /\ \A other \in DOMAIN build_layout(fn).local_index \ {v[1]} :
               SlotsOf(build_layout(fn), v[1]) \cap SlotsOf(build_layout(fn), other) = {}

\* STORE_LOCAL_IDX inside the frame changes the slot base + index alone, and
\* LOAD_LOCAL_IDX pushes the value of the slot base + index.
IndexedAccess ==
    /\ Executes("STORE_LOCAL_IDX", 2) /\ ~OutOfFrame(arg + Top(1)) =>
           locals' = [locals EXCEPT ![arg + Top(1) + 1] = Top(2)]
    /\ Executes("LOAD_LOCAL_IDX", 1) /\ ~OutOfFrame(arg + Top(1)) =>
           /\ locals' = locals
           /\ stack' = Append(Drop(1), locals[arg + Top(1) + 1])

\* C26: for every variable xs the analyzer types int[N], a local of any scope
\* or a parameter, xs[i] = v followed by a read of xs[i] yields v and changes
\* no other element and no other variable: xs has N slots of its own that
\* the lowering of xs[i] addresses, and the two instructions access the slot.
C26_IndexedWriteRead ==
    /\ []((prog # 0 /\ status = "ready") =>
              \A f \in 1..Len(Source) : ArraysLaidOut(Source[f]))
    /\ [][IndexedAccess]_vars

\* The arrays declared with let are laid out so, but in ProgShadow (18),
\* where the name of the array is declared before as an int, and the array
\* parameter of ProgArrayParam (24) is not.
LocalArraysLaidOut ==
    (prog \notin {0, 18, 24} /\ status = "ready") =>
        \A f \in 1..Len(Source) : ArraysLaidOut(Source[f])

\* f(a, 9) has run xs[1] = 5; println(xs[1]) on its parameter xs: it printed
\* 0, and 9 for k.
C26_Witness ==
    /\ prog = 24
    /\ Len(call_stack) = 1
    /\ out = <<"0\n", "9\n">>

(***************************************************************************)
(* C27: the arguments of a built-in call are evaluated once                *)
(***************************************************************************)
BuiltinNames == {get_builtins[i].name : i \in 1..Len(get_builtins)}

\* The operand expressions of an expression node
Children(e) ==
    CASE e.kind = "Unary" -> <<e.right>>
      [] e.kind = "Binary" -> <<e.left, e.right>>
      [] e.kind = "Index" -> <<e.array, e.index>>
      [] e.kind = "AddressOf" -> <<e.target>>
      [] e.kind = "Call" -> e.args
      [] OTHER -> <<>>

\* The calls of user functions in the expression e at path p: the only
\* expressions with a side effect.
RECURSIVE user_calls(_, _)
user_calls(e, p) ==
    (IF e.kind = "Call" /\ e.callee \notin BuiltinNames THEN {p} ELSE {})
    \cup UNION {user_calls(Children(e)[i], p \o <<i>>) : i \in 1..Len(Children(e))}

\* A generator that knows every function of the program
AllKnown ==
    [CodeGenVM EXCEPT !.func_name_to_index =
        [name \in {Source[f].name : f \in 1..Len(Source)} |->
            (CHOOSE f \in 1..Len(Source) : Source[f].name = name) - 1]]

\* The CALL instructions in the code emitted for the expression e
EmittedCalls(e, layout) ==
    Cardinality({i \in 1..Len(emit_expr(e, layout, AllKnown).code) :
                    emit_expr(e, layout, AllKnown).code[i].op = "CALL"})

\* For each built-in call in e: its path, the CALL instructions emitted for
\* it, and the user calls written in its arguments.  The code of a built-in
\* call has no jump, so each emitted CALL runs once per execution of it.
RECURSIVE builtin_calls(_, _, _)
builtin_calls(e, p, layout) ==
    (IF e.kind = "Call" /\ e.callee \in BuiltinNames
     THEN {<<p, EmittedCalls(e, layout), Cardinality(user_calls(e, p))>>} ELSE {})
    \cup UNION {builtin_calls(Children(e)[i], p \o <<i>>, layout) : i \in 1..Len(Children(e))}

\* The expressions and the blocks of a statement
StmtExprs(st) ==
    CASE st.kind = "VarDecl" -> IF st.init.kind = "None" THEN <<>> ELSE <<st.init>>
      [] st.kind = "Assign" -> <<st.target, st.value>>
      [] st.kind \in {"Print", "PrintLn"} -> <<st.value>>
      [] st.kind = "Return" -> IF st.value.kind = "None" THEN <<>> ELSE <<st.value>>
      [] st.kind = "ExprStmt" -> <<st.expr>>
      [] st.kind \in {"If", "While"} -> <<st.cond>>
      [] OTHER -> <<>>
StmtBlocks(st) ==
    CASE st.kind = "If" -> <<st.then_block, st.else_block>>
      [] st.kind = "While" -> <<st.body>>
      [] OTHER -> <<>>

RECURSIVE block_builtin_calls(_, _, _)
stmt_builtin_calls(st, sp, layout) ==
    UNION {builtin_calls(StmtExprs(st)[i], sp \o <<i>>, layout) : i \in 1..Len(StmtExprs(st))}
    \cup UNION {block_builtin_calls(StmtBlocks(st)[i], sp \o <<Len(StmtExprs(st)) + i>>, layout) :
                  i \in 1..Len(StmtBlocks(st))}
block_builtin_calls(block, bp, layout) ==
    UNION {stmt_builtin_calls(block[i], bp \o <<i>>, layout) : i \in 1..Len(block)}

BuiltinCalls ==
    UNION {block_builtin_calls(Source[f].body, <<f>>, build_layout(Source[f])) :
              f \in 1..Len(Source)}

\* C27: each argument expression of a built-in call is evaluated exactly once
\* per execution of the call, so a side effect inside an argument (a call
\* that prints) is observed exactly once: the code of the built-in call
\* holds one CALL for each user call written in its arguments.
C27_ArgumentsOnce ==
    (prog # 0 /\ status = "ready") => \A b \in BuiltinCalls : b[2] = b[3]

\* array_push(xs, tick(), 5) has run: tick printed 7 twice before n is
\* printed.
C27_Witness ==
    /\ prog = 25
    /\ status = "running"
    /\ out = <<"7\n", "7\n", "2\n">>

(***************************************************************************)
(* C28: an indexed write stays inside its array                            *)
(***************************************************************************)
\* The layout of the function whose code is running
RunningLayout == build_layout(Source[FnOf(pc)])

\* The arrays of the running function that start at slot base
ArraysAt(base) ==
    {name \in DOMAIN RunningLayout.arrays : RunningLayout.local_index[name] = base}

\* The slots of the array that starts at slot base
ArraySlots(base) ==
    base .. (base + RunningLayout.arrays[CHOOSE name \in ArraysAt(base) : TRUE] - 1)

\* The STORE_LOCAL_IDX of an indexed write or of array_push is about to run
\* on an array of the frame.
IndexedWrite ==
    /\ prog # 0
    /\ Executes("STORE_LOCAL_IDX", 2)
    /\ ArraysAt(arg) # {}

\* C28: xs[i] = v and array_push(xs, len, v) on xs of type int[N] never
\* change a local slot that does not belong to xs: with the index outside
\* 0..N-1 the write raises a runtime error or has no effect.
C28_WritesStayInArray ==
    [][IndexedWrite =>
           /\ \A slot \in (0..(Len(locals) - 1)) \ ArraySlots(arg) :
                  locals'[slot + 1] = locals[slot + 1]
           /\ arg + Top(1) \notin ArraySlots(arg) =>
                  status' = "error" \/ locals' = locals]_vars

\* A write past the frame raises.
WritesStayInFrame ==
    [][IndexedWrite /\ OutOfFrame(arg + Top(1)) => RaisesUnchanged]_vars

\* xs[2] = 9 on xs of type int[2] has run: the println(y) after it prints 9.
C28_Witness ==
    /\ prog = 26 /\ argA = 2
    /\ status = "running"
    /\ out = <<"9\n">>

(***************************************************************************)
(* C29: the operand stack at statement boundaries                          *)
(***************************************************************************)
\* The generator when it starts on the body of function f of the program
BeforeBody(program, ctx, f) ==
    Bind(generate_functions(SubSeq(program, 1, f - 1), 1, ctx, CodeGenVM), LAMBDA g :
        [g EXCEPT !.functions =
                      Append(g.functions,
                             [build_layout(program[f]) EXCEPT !.entry_pc = Len(g.code)]),
                  !.func_name_to_index =
                      (program[f].name :> Len(g.functions)) @@ g.func_name_to_index])

\* len(self.code) when statement i of the body of function f is emitted (the
\* end of the body for i past the last statement)
StmtStart(program, ctx, f, i) ==
    Len(emit_stmts(SubSeq(program[f].body, 1, i - 1), 1, <<f>>, build_layout(program[f]),
                   ctx, BeforeBody(program, ctx, f)).code)

\* The statement boundaries of the body of each function, as (f, pc).  The
\* literals A and B of a parametric program do not change the length of its
\* code.
BoundariesOf(program) ==
    UNION {{<<f, StmtStart(program, analyze(program), f, i)>> :
                i \in 1..(Len(program[f].body) + 1)} : f \in 1..Len(program)}
Boundaries == [p \in ProgramIds |-> BoundariesOf(Program(p, 0, 0))]

\* The execution is at a boundary between two statements of the body of the
\* running function.
AtBoundary ==
    /\ prog # 0
    /\ status = "running"
    /\ <<FnOf(pc), pc>> \in Boundaries[prog]

\* The depth of the stack when the running frame was entered: empty for
\* main, and what the caller had below the arguments for a called function
FrameBase ==
    IF call_hist = <<>> THEN 0 ELSE Len(call_hist[Len(call_hist)].below)

\* C29: every complete statement of a generated program leaves the operand
\* stack at the depth it had before the statement: at every statement
\* boundary of a frame the depth is the one the frame started with, however
\* many times a loop body has run.
C29_StatementsBalanced == AtBoundary => Len(stack) = FrameBase

\* A block holds an expression statement, at any depth
RECURSIVE has_expr_stmt(_)
has_expr_stmt(block) ==
    \E i \in 1..Len(block) :
        \/ block[i].kind = "ExprStmt"
        \/ \E j \in 1..Len(StmtBlocks(block[i])) : has_expr_stmt(StmtBlocks(block[i])[j])

\* The programs without an expression statement keep the depth.
OtherStatementsBalanced ==
    (prog # 0 /\ \A f \in 1..Len(Source) : ~has_expr_stmt(Source[f].body))
        => C29_StatementsBalanced

\* The while statement of ProgLoopLeak starts for the fourth time, after
\* three runs of its body: three values are on the stack.
C29_Witness ==
    /\ prog = 27
    /\ AtBoundary
    /\ code[pc + 1].op = "LOAD_LOCAL"
    /\ locals = <<3>>
    /\ Len(stack) = 3

====
